---- MODULE Spec2Model ----
(***************************************************************************)
(* Manifestation Room: the vision-analysis hook (useVisionAnalysis), its   *)
(* provider clients, the response parser, the canned profiles and the      *)
(* derivation of the 4-week manifestation path; the App component with    *)
(* its stored collection and detectRelations; and the earlier provider     *)
(* client that iterates over model variants (analyzeVisionWithGemini).     *)
(*                                                                         *)
(* JavaScript objects are functions on the set of keys they carry: a key   *)
(* that is missing (or whose value is undefined) is not in the DOMAIN.     *)
(* Strings that the code only compares for equality are TLA+ strings;      *)
(* literals that are not ASCII in the source are written as ASCII labels,  *)
(* each with the source literal in the comment beside it.  Strings the     *)
(* code looks into (credentials, provider reply texts) are sequences.      *)
(***************************************************************************)
EXTENDS Integers, Sequences, FiniteSets, TLC

VARIABLES
  files,        \* the File[] handed to analyzeImages (file names)
  storedKey,    \* localStorage['anthropic_api_key'] (Null when absent)
  now,          \* Date.now()
  pc,           \* position of the analyzeImages task
  claudeKey,    \* the credential analyzeImages read at its start
  i,            \* loop index of analyzeImages
  analyses,     \* the batch accumulator of analyzeImages
  isAnalyzing,  \* useState: isAnalyzing
  progress,     \* useState: progress
  results,      \* useState: results
  returned,     \* the value the analyzeImages promise resolved with
  requests,     \* every network request made so far: <<provider, index>>
  lastError,    \* what the catch block of the current iteration caught
  caught,       \* history: the indices whose iteration reached the catch block
  fIndex,       \* generateFallbackAnalysis: argument index
  fFile,        \* generateFallbackAnalysis: argument file
  fOut,         \* generateFallbackAnalysis: returned record
  sop,          \* generateManifestationPath: argument's sopMapping
  path,         \* generateManifestationPath: returned path
  relIn,        \* detectRelations: argument analyses
  relOut,       \* detectRelations: returned collection
  mounted,      \* App: "no" before the page is open, "loading", "yes", or "crashed"
  stage,        \* App useState: stage
  uploadedImages,   \* App useState: uploadedImages
  appAnalyses,      \* App useState: analyses
  selectedAnalysis, \* App useState: selectedAnalysis
  storage,      \* localStorage['manifestation_room_visions'] (Null when absent)
  batchNo,      \* how many batches have been analysed (the time part of ids)
  lastOp,       \* history: the last App operation and the batch it was given
  appQueued,    \* App: the setAnalyses(parsed) the loading effect has queued
  pText,        \* parseAIResponse: argument text
  pOut,         \* parseAIResponse: result
  gPc,          \* analyzeVisionWithGemini: position
  gModel,       \* analyzeVisionWithGemini: 0-based position in models
  gRequests,    \* analyzeVisionWithGemini: the model variants requested so far
  gReplies,     \* history: what each request was answered with
  gLastError,   \* analyzeVisionWithGemini: lastError
  gOut,         \* analyzeVisionWithGemini: how the promise settled
  completionStore,  \* localStorage['completed_actions_<id>'] per record id
  apRecord,     \* ActionPlanEnhanced: id of the record it is open for (Null: closed)
  apPc,         \* ActionPlanEnhanced: what React does next for it
  completedActions, \* ActionPlanEnhanced useState: completedActions
  apPending,    \* ActionPlanEnhanced: queued setCompletedActions updates
  apAtMount,    \* history: what was stored for the record when it was opened
  apToggles,    \* history: the keys toggled since it was opened
  rWidth,       \* resizeAndConvert: img.width of the decoded file
  rHeight,      \* resizeAndConvert: img.height of the decoded file
  rDecodes,     \* resizeAndConvert: whether the file decodes as an image
  rOut,         \* resizeAndConvert: how the promise settled
  dAnalysis,    \* DailyManifestationDashboard: prop analysis
  dDay,         \* DailyManifestationDashboard: daysSinceUpload
  dWeek,        \* DailyManifestationDashboard: currentWeek, as the header shows it
  dTasks,       \* DailyManifestationDashboard useState: tasks
  view,         \* server-backed App useState: view
  selectedVision,   \* server-backed App useState: selectedVision
  visions,      \* server-backed App useState: visions
  loading,      \* server-backed App useState: loading
  db,           \* the visions the server holds
  loadPc,       \* loadVisions: "waiting" for getVisions, "replied", "done"
  loadReply,    \* loadVisions: how getVisions settled
  createPc,     \* handleCreate / handleDemoCreate: "idle" or the await it is at
  createKind,   \* which of the two handlers is running: "upload" or "demo"
  createResult, \* handleCreate: finalResult (handleDemoCreate: result)
  createReply,  \* whether saveVision resolved
  creates,      \* how many creations have been started (the time part of ids)
  deletePc,     \* handleDelete: "idle", "waiting" for deleteVision, "replied"
  deleteId,     \* handleDelete: argument id
  deleteReply,  \* whether deleteVision resolved
  added,        \* history: ids of the visions a creation has added to the list
  deleted,      \* history: ids the user has confirmed the deletion of
  lastCreate    \* history: how the last creation ended

vars == <<files, storedKey, now, pc, claudeKey, i, analyses, isAnalyzing,
          progress, results, returned, requests, lastError, caught,
          fIndex, fFile, fOut, sop, path, relIn, relOut,
          mounted, stage, uploadedImages, appAnalyses, selectedAnalysis, storage,
          batchNo, lastOp, appQueued, pText, pOut,
          gPc, gModel, gRequests, gReplies, gLastError, gOut,
          completionStore, apRecord, apPc, completedActions, apPending, apAtMount,
          apToggles, rWidth, rHeight, rDecodes, rOut,
          dAnalysis, dDay, dWeek, dTasks,
          view, selectedVision, visions, loading, db, loadPc, loadReply,
          createPc, createKind, createResult, createReply, creates,
          deletePc, deleteId, deleteReply, added, deleted, lastCreate>>

hookVars == <<files, storedKey, now, pc, claudeKey, i, analyses, isAnalyzing,
              progress, results, returned, requests, lastError, caught>>
fallbackVars == <<fIndex, fFile, fOut>>
pathVars == <<sop, path>>
relVars == <<relIn, relOut>>
appVars == <<mounted, stage, uploadedImages, appAnalyses, selectedAnalysis, storage,
             batchNo, lastOp, appQueued>>
parseVars == <<pText, pOut>>
geminiVars == <<gPc, gModel, gRequests, gReplies, gLastError, gOut>>
planVars == <<completionStore, apRecord, apPc, completedActions, apPending, apAtMount,
              apToggles>>
resizeVars == <<rWidth, rHeight, rDecodes, rOut>>
dailyVars == <<dAnalysis, dDay, dWeek, dTasks>>
serverVars == <<view, selectedVision, visions, loading, db, loadPc, loadReply,
                createPc, createKind, createResult, createReply, creates,
                deletePc, deleteId, deleteReply, added, deleted, lastCreate>>
tailVars == <<planVars, resizeVars, dailyVars, serverVars>>
notPlanVars == <<hookVars, fallbackVars, pathVars, relVars, appVars, parseVars, geminiVars,
                 resizeVars, dailyVars, serverVars>>
notResizeVars == <<hookVars, fallbackVars, pathVars, relVars, appVars, parseVars, geminiVars,
                   planVars, dailyVars, serverVars>>
notDailyVars == <<hookVars, fallbackVars, pathVars, relVars, appVars, parseVars, geminiVars,
                  planVars, resizeVars, serverVars>>
notServerVars == <<hookVars, fallbackVars, pathVars, relVars, appVars, parseVars, geminiVars,
                   planVars, resizeVars, dailyVars>>
extVars == <<relVars, appVars, parseVars, geminiVars, tailVars>>
notAppVars == <<hookVars, fallbackVars, pathVars, relVars, parseVars, geminiVars, tailVars>>
notGeminiVars == <<hookVars, fallbackVars, pathVars, relVars, appVars, parseVars, tailVars>>

----------------------------------------------------------------------------
(* Bounds of the model *)

MaxFiles == 2      \* longest batch handed to analyzeImages
MaxNow == 1        \* the clock runs 0..MaxNow
MaxIndex == 16     \* largest index handed to generateFallbackAnalysis alone
MaxSop == 2        \* longest enumerated sopMapping list

----------------------------------------------------------------------------
(* Small helpers for JavaScript values *)

Null == <<"<null>">>                       \* localStorage.getItem: no such key
NoObj == [z \in {} |-> 0]                  \* the object {}
Has(o, k) == k \in DOMAIN o
Opt(k, o) == IF Has(o, k) THEN (k :> o[k]) ELSE NoObj
Min(a, b) == IF a <= b THEN a ELSE b
Max(a, b) == IF a >= b THEN a ELSE b

JNull == [kind |-> "null"]
JString == [kind |-> "string"]
JObject(o) == [kind |-> "object", obj |-> o]

----------------------------------------------------------------------------
(* Sub-system names and literal actions (ASCII labels of the literals)     *)

SS_Inbox == "Inbox"                  \* 收集箱
SS_OKR == "OKR & Projects"           \* OKR及项目管理
SS_Inventory == "Life Inventory"     \* 生活物品库存
SS_Nutrition == "Nutrition & Health" \* 营养与健康
SS_RIA == "R.I.A. Reading System"    \* R.I.A. 阅读系统
SS_Travel == "Activities & Travel"   \* 活动与旅行计划
SS_Review == "Review"                \* 回顾纠偏
SS_Fitness == "Fitness 2.0"          \* 健身运动管理 2.0
SS_Content == "Content Creation"     \* 内容创作系统
SS_Habit == "Habit Tracker"          \* 习惯追踪器
SS_Knowledge == "Knowledge"          \* 知识管理

DEF_W1A == "default: update inbox"        \* 更新收集箱
DEF_W1B == "default: set monthly OKR"     \* 设定本月OKR
DEF_W2A == "default: clear space"         \* 清理空间
DEF_W3A == "default: morning ritual"      \* 优化晨间仪式
DEF_W4A == "default: Heptabase output"    \* Heptabase 输出
DEF_W4B == "default: monthly review"      \* 月度复盘
FIX_W2B == "fixed: declutter"             \* 断舍离不符物品
FIX_W3B == "fixed: daily ride"            \* 执行每日骑行/运动

Entry(m, s, c, a) == [module |-> m, subSystem |-> s, visualCue |-> c, actions |-> a]

----------------------------------------------------------------------------
(* getDemoMockResponse: the canonical demo StructuredResult *)

DEMO_ARCHETYPE == "Mediterranean Creator"

getDemoMockResponse ==
  [ visualDNA |->
      [ colorPalette |-> <<"#E8DCC4", "#C9A882", "#8B7355">>,
        materials |-> <<"Terra Cotta", "Linen", "Wood", "Brass">>,
        lighting |-> "Warm Morning Light",
        spatialFeeling |-> "Mediterranean Slow Life",
        emotionalCore |-> <<"Calm", "Grounded", "Intentional">>,
        archetype |-> DEMO_ARCHETYPE ],
    lifestyleInference |->
      [ pace |-> "Slow & Intentional",
        values |-> <<"Quality over Quantity", "Handmade over Industrial", "Present moment">>,
        dailyRituals |-> <<"Morning barefoot meditation", "Hand-pour coffee ritual",
                           "Candlelight reflection">> ],
    sensoryTriggers |->
      [ smell |-> "Fresh rosemary & Coffee",
        sound |-> "Breeze in linen curtains",
        touch |-> "Rough terra cotta & Smooth wood" ],
    sopMapping |-> <<
      Entry("WRITE_PLAN", SS_Inbox, "demo cue 1", <<"demo: store vision in inbox", "demo: extract keywords">>),
      Entry("PLAN", SS_OKR, "demo cue 2", <<"demo: goal mediterranean home", "demo: KR replace plastic">>),
      Entry("DO", SS_Inventory, "demo cue 3", <<"demo: buy pottery bowl", "demo: declutter synthetics">>),
      Entry("DO", SS_Nutrition, "demo cue 4", <<"demo: slow food ritual", "demo: whole grain recipes">>),
      Entry("DO", SS_RIA, "demo cue 5", <<"demo: read Wabi-Sabi", "demo: Heptabase notes">>),
      Entry("DO", SS_Travel, "demo cue 6", <<"demo: visit pottery studio", "demo: plan a trip">>),
      Entry("CHECK", SS_Review, "demo cue 7", <<"demo: compare space photo", "demo: review routine rate">>) >> ]

----------------------------------------------------------------------------
(* MOCK_PROFILES: the library of canned profiles *)

MOCK_PROFILES == <<
  \* 1. Mediterranean Elegance
  [ visualDNA |->
      [ colorPalette |-> <<"#F5F0E8", "#8B6F47", "#FFFFFF", "#2C2420">>,
        materials |-> <<"Terra Cotta", "Raw Concrete", "Linen", "Vintage Wood">>,
        lighting |-> "Golden Hour Diffused",
        spatialFeeling |-> "Expansive yet Intimate",
        emotionalCore |-> <<"Confident", "Sensual", "Unhurried", "Theatrical">>,
        archetype |-> "Mediterranean Muse" ],
    lifestyleInference |->
      [ pace |-> "Slow Mornings (9-11am)",
        values |-> <<"Beauty as Daily Life", "Body as Art", "Space as Stage">>,
        dailyRituals |-> <<"Barefoot Grounding", "Natural Light Yoga", "Candlelight Dinner">> ],
    sensoryTriggers |->
      [ smell |-> "Fig & Old Wood",
        sound |-> "Distant Bells & Fabric Rustle",
        touch |-> "Cool Terra Cotta & Soft Linen" ],
    sopMapping |-> <<
      Entry("WRITE_PLAN", SS_Inbox, "Aesthetic", <<"Remove plastic items", "Add linen to wishlist">>),
      Entry("PLAN", SS_OKR, "Upgrade", <<"Target: Aesthetic Upgrade", "KR: Replace 3 synthetic items">>),
      Entry("DO", SS_Inventory, "Materials", <<"Buy Linen Bedding", "Buy Vintage Chair">>),
      Entry("DO", SS_Fitness, "Body", <<"Pilates 3x/week", "Practice Conscious Posture">>),
      Entry("DO", SS_Content, "Light", <<"Photo Shoot: Light & Shadow", "Study Helmut Newton">>),
      Entry("CHECK", SS_Review, "Review", <<"Daily Body Feeling Journal">>) >> ],
  \* 2. Urban Minimalist: the source gives no spatialFeeling
  [ visualDNA |->
      [ colorPalette |-> <<"#4A3C2E", "#1C1C1C", "#D4C5B0">>,
        materials |-> <<"Wool", "Stone", "Aged Architecture">>,
        lighting |-> "Overcast Diffused",
        emotionalCore |-> <<"Introspective", "Independent", "Intellectual">>,
        archetype |-> "Urban Flaneur" ],
    lifestyleInference |->
      [ pace |-> "Observational & Solitary",
        values |-> <<"Intellectual Depth", "Minimalism", "Observation">>,
        dailyRituals |-> <<"Afternoon City Walk", "Cafe Reading", "People Watching">> ],
    sensoryTriggers |->
      [ smell |-> "Rain on Asphalt",
        sound |-> "City Hum",
        touch |-> "Rough Wool & Cold Stone" ],
    sopMapping |-> <<
      Entry("WRITE_PLAN", SS_Inbox, "Urban", <<"Capture city textures", "Note observation ideas">>),
      Entry("DO", SS_Inventory, "Wardrobe", <<"Keep 5 High-Quality Coats", "Declutter Wardrobe">>),
      Entry("DO", SS_RIA, "Intellect", <<"Read Philosophy Books", "Cafe Reading Session">>),
      Entry("DO", SS_Content, "People", <<"Observation Journal: Stranger Stories">>),
      Entry("CHECK", SS_Review, "Solitude", <<"Weekly Solitude Audit">>) >> ],
  \* 3. Wabi-Sabi Sanctuary
  [ visualDNA |->
      [ colorPalette |-> <<"#C4A574", "#8B7355", "#3D3D3D">>,
        materials |-> <<"Raw Concrete", "Natural Wood", "Linen">>,
        lighting |-> "Warm Ambient Layers",
        spatialFeeling |-> "Low Profile Zen Flow",
        emotionalCore |-> <<"Grounded", "Meditative", "Uncluttered">>,
        archetype |-> "Wabi-Sabi Essentialist" ],
    lifestyleInference |->
      [ pace |-> "Grounded & Present",
        values |-> <<"Imperfection", "Silence", "Nature">>,
        dailyRituals |-> <<"Floor Tea Ceremony", "Floor Reading", "Nothing Time">> ],
    sensoryTriggers |->
      [ smell |-> "Earth & Tea",
        sound |-> "Silence",
        touch |-> "Raw Wood Texture" ],
    sopMapping |-> <<
      Entry("DO", SS_Inventory, "Simplicity", <<"One-In-One-Out Rule", "Lower Furniture Height">>),
      Entry("DO", SS_Habit, "Living", <<"Floor Living Day", "Remove Ceiling Lights">>),
      Entry("DO", "Finance", "Craft", <<"Invest in Handmade Crafts", "Stop Impulse Buying">>),
      Entry("CHECK", SS_Review, "Space", <<"Declutter Check", "Silence Audit">>) >> ],
  \* 4. Coffee Ritual Corner
  [ visualDNA |->
      [ colorPalette |-> <<"#3C3C3C", "#000000", "#A88B6F">>,
        materials |-> <<"Steel", "Glass", "Dark Wood">>,
        lighting |-> "Focused Spot",
        spatialFeeling |-> "Precision Corner",
        emotionalCore |-> <<"Precision", "Self Care", "Focus">>,
        archetype |-> "Ritual Master" ],
    lifestyleInference |->
      [ pace |-> "Precise & Slow Start",
        values |-> <<"Process", "Quality", "Patience">>,
        dailyRituals |-> <<"Morning Pour Over", "Bean Grinding", "Tech-Free Morning">> ],
    sensoryTriggers |->
      [ smell |-> "Fresh Ground Coffee",
        sound |-> "Water Pouring",
        touch |-> "Warm Ceramic Cup" ],
    sopMapping |-> <<
      Entry("DO", SS_Habit, "Morning", <<"06:30 Coffee Ceremony", "No Phone during Coffee">>),
      Entry("DO", SS_Inventory, "Gear", <<"Setup Coffee Corner", "Buy Pour Over Gear">>),
      Entry("DO", SS_Knowledge, "Taste", <<"Study Coffee Origins", "Tasting Notes Log">>) >> ],
  \* 5. Quiet Companionship
  [ visualDNA |->
      [ colorPalette |-> <<"#E0E0E0", "#303030", "#A0A0A0">>,
        materials |-> <<"Soft Light", "Paper", "Fur">>,
        lighting |-> "Window Blinds Shadow",
        spatialFeeling |-> "Shared Solitude",
        emotionalCore |-> <<"Solitude", "Connection", "Peace">>,
        archetype |-> "Silent Companion" ],
    lifestyleInference |->
      [ pace |-> "Gentle & Shared",
        values |-> <<"Quiet Presence", "Deep Connection", "Peace">>,
        dailyRituals |-> <<"Silent Reading Hour", "Cat Meditation", "Window Gazing">> ],
    sensoryTriggers |->
      [ smell |-> "Clean Laundry",
        sound |-> "Turning Pages",
        touch |-> "Soft Fur" ],
    sopMapping |-> <<
      Entry("DO", SS_Travel, "Social", <<"Practice Silent Company", "Invite Friend for Nothing">>),
      Entry("DO", SS_RIA, "Focus", <<"Daily Quality Solitude", "Paper Book Reading">>) >> ]
>>

----------------------------------------------------------------------------
(* generateManifestationPath *)

Threw == [state |-> "threw"]
Ok(v) == [state |-> "ok", val |-> v]
NotRun == [state |-> "none"]

\* sopMapping.find(m => m[key] === value): the index of the first match, 0 if none
FindIndex(sopMapping, key, value) ==
  LET hits == {k \in 1..Len(sopMapping) :
                 Has(sopMapping[k], key) /\ sopMapping[k][key] = value}
  IN IF hits = {} THEN 0 ELSE CHOOSE k \in hits : \A h \in hits : k <= h

\* sopMapping.find(...)?.actions[0] || fallback
\* (reading [0] of a missing actions list is a TypeError)
SlotNoDefault(sopMapping, key, value, fallback) ==
  LET k == FindIndex(sopMapping, key, value)
  IN IF k = 0 THEN Ok(fallback)
     ELSE IF ~Has(sopMapping[k], "actions") THEN Threw
     ELSE IF Len(sopMapping[k].actions) = 0 THEN Ok("")
     ELSE Ok(sopMapping[k].actions[1])

Slot(sopMapping, key, value, fallback) ==
  LET k == FindIndex(sopMapping, key, value)
  IN IF k = 0 THEN Ok(fallback)
     ELSE IF ~Has(sopMapping[k], "actions") THEN Threw
     ELSE IF Len(sopMapping[k].actions) = 0 \/ sopMapping[k].actions[1] = ""
          THEN Ok(fallback)
     ELSE Ok(sopMapping[k].actions[1])

\* The static week table: per week the focus label and its two slots, a slot
\* being a lookup (field, value, default) or a literal.
WeekTable == <<
  [ week |-> 1, focus |-> "WRITE & PLAN",               \* (收集与定源)
    slots |-> << [kind |-> "find", key |-> "module", value |-> "WRITE_PLAN", dflt |-> DEF_W1A],
                 [kind |-> "find", key |-> "module", value |-> "PLAN", dflt |-> DEF_W1B] >> ],
  [ week |-> 2, focus |-> "DO: Inventory",              \* DO: 空间与物品 (Inventory)
    slots |-> << [kind |-> "find", key |-> "subSystem", value |-> SS_Inventory, dflt |-> DEF_W2A],
                 [kind |-> "literal", text |-> FIX_W2B] >> ],
  [ week |-> 3, focus |-> "DO: Routine",                \* DO: 习惯与健康 (Routine)
    slots |-> << [kind |-> "find", key |-> "subSystem", value |-> SS_Nutrition, dflt |-> DEF_W3A],
                 [kind |-> "literal", text |-> FIX_W3B] >> ],
  [ week |-> 4, focus |-> "CHECK & OUTPUT",             \* (创造与复盘)
    slots |-> << [kind |-> "find", key |-> "subSystem", value |-> SS_RIA, dflt |-> DEF_W4A],
                 [kind |-> "find", key |-> "module", value |-> "CHECK", dflt |-> DEF_W4B] >> ] >>

SlotValue(sopMapping, slot) ==
  IF slot.kind = "literal" THEN Ok(slot.text)
  ELSE Slot(sopMapping, slot.key, slot.value, slot.dflt)

\* Mutant: the "|| default" of every slot is lost.
generateManifestationPath_NoDefault(aiResult) ==
  IF ~Has(aiResult, "sopMapping") THEN Threw
  ELSE Ok([w \in 1..4 |->
            [ week |-> w, focus |-> WeekTable[w].focus,
              actions |-> [n \in 1..2 |->
                 LET slot == WeekTable[w].slots[n]
                 IN IF slot.kind = "literal" THEN slot.text
                    ELSE SlotNoDefault(aiResult.sopMapping, slot.key, slot.value, slot.dflt).val] ]])

\* Mutant: the lookups are keyed on the (module, sub-system) pair of the prompt.
generateManifestationPath_ByPair(aiResult) ==
  IF ~Has(aiResult, "sopMapping") THEN Threw
  ELSE Ok([w \in 1..4 |->
            [ week |-> w, focus |-> WeekTable[w].focus,
              actions |-> [n \in 1..2 |->
                 LET slot == WeekTable[w].slots[n]
                     want == IF slot.kind = "literal" THEN <<"", "">>
                             ELSE IF slot.key = "subSystem" THEN <<"DO", slot.value>>
                             ELSE IF slot.value = "WRITE_PLAN" THEN <<"WRITE_PLAN", SS_Inbox>>
                             ELSE IF slot.value = "PLAN" THEN <<"PLAN", SS_OKR>>
                             ELSE <<"CHECK", SS_Review>>
                     hits == {k \in 1..Len(aiResult.sopMapping) :
                                /\ aiResult.sopMapping[k].module = want[1]
                                /\ aiResult.sopMapping[k].subSystem = want[2]}
                     e == aiResult.sopMapping[CHOOSE k \in hits : \A h \in hits : k <= h]
                 IN IF slot.kind = "literal" THEN slot.text
                    ELSE IF hits = {} \/ Len(e.actions) = 0 \/ e.actions[1] = "" THEN slot.dflt
                    ELSE e.actions[1]] ]])

generateManifestationPath(aiResult) ==
  IF ~Has(aiResult, "sopMapping") THEN Threw      \* undefined.find: TypeError
  ELSE LET v(w, n) == SlotValue(aiResult.sopMapping, WeekTable[w].slots[n])
       IN IF \E w \in 1..4, n \in 1..2 : v(w, n) = Threw THEN Threw
          ELSE Ok([w \in 1..4 |->
                    [ week |-> WeekTable[w].week, focus |-> WeekTable[w].focus,
                      actions |-> [n \in 1..2 |-> v(w, n).val] ]])

----------------------------------------------------------------------------
(* generateFallbackAnalysis *)

DEMO_NAME == "My_Vision_Board_Demo.png"
createObjectURL(file) == <<"blob:", file>>

\* Mutant: the profile cycles by index modulo the library size.
FallbackProfileIndex_ModLen(index) == index % Len(MOCK_PROFILES)

\* profileIndex (0-based) chosen from index % 8
FallbackProfileIndex(index) ==
  LET modIndex == index % 8
  IN IF modIndex = 0 \/ modIndex = 2 THEN 0
     ELSE IF modIndex = 1 THEN 1
     ELSE IF modIndex = 3 \/ modIndex = 6 \/ modIndex = 7 THEN 2
     ELSE IF modIndex = 4 THEN 3
     ELSE IF modIndex = 5 THEN 4
     ELSE 0

generateFallbackAnalysis(file, index, t) ==
  LET mockProfile == MOCK_PROFILES[FallbackProfileIndex(index) + 1]
      mp == generateManifestationPath(mockProfile)
  IN IF mp = Threw THEN Threw
     ELSE Ok( ("id" :> <<"vision-simulated-", t, index>>)
              @@ ("imageUrl" :> createObjectURL(file))
              @@ ("uploadedAt" :> t)
              @@ Opt("visualDNA", mockProfile)
              @@ Opt("lifestyleInference", mockProfile)
              @@ Opt("sensoryTriggers", mockProfile)
              @@ Opt("sopMapping", mockProfile)
              @@ ("manifestationPath" :> mp.val) )

----------------------------------------------------------------------------
(* Provider replies.  A reply text is a sequence of tokens:                *)
(*   "FJ" = ```json\n    "F" = ```\n    "FE" = \n```    "{"    "}"         *)
(*   "prose" = words without braces or fences, "null" = the JSON null,     *)
(*   "str" = a JSON string literal, and a payload name = the members of    *)
(*   one JSON object (the text between its outer braces).                  *)

LiveSop == <<
  Entry("WRITE_PLAN", "Ideas", "live cue 1", <<"live: collect ideas", "live: keywords">>),
  Entry("DO", SS_Inventory, "live cue 2", <<>>),
  Entry("DO", SS_Nutrition, "live cue 3", <<"live: try recipe">>),
  Entry("CHECK", SS_Review, "live cue 4", <<"", "live: weekly check">>) >>

LiveFull ==
  [ visualDNA |->
      [ colorPalette |-> <<"#112233", "#8B7355">>,
        materials |-> <<"Linen">>,
        lighting |-> "live lighting",
        spatialFeeling |-> "live feeling",
        emotionalCore |-> <<"Calm", "Grounded">>,
        archetype |-> "Live Archetype" ],
    lifestyleInference |->
      [ pace |-> "live pace", values |-> <<"Nature">>, dailyRituals |-> <<"live ritual">> ],
    sensoryTriggers |-> [ smell |-> "live smell", sound |-> "live sound", touch |-> "live touch" ],
    sopMapping |-> LiveSop ]

Without(o, k) == [x \in DOMAIN o \ {k} |-> o[x]]

\* The JSON objects a provider may answer with
Payloads ==
  [ full |-> LiveFull,
    noDNA |-> Without(LiveFull, "visualDNA"),
    noArchetype |-> [LiveFull EXCEPT !.visualDNA = Without(LiveFull.visualDNA, "archetype")],
    noSop |-> Without(LiveFull, "sopMapping"),
    emptySop |-> [LiveFull EXCEPT !.sopMapping = <<>>],
    noActions |-> [LiveFull EXCEPT !.sopMapping =
                     <<Without(Entry("WRITE_PLAN", SS_Inbox, "live cue", <<>>), "actions")>>],
    empty |-> NoObj ]

PayloadNames == DOMAIN Payloads

Texts ==
  UNION { { <<"{", p, "}">>,
            <<"FJ", "{", p, "}", "FE">>,
            <<"prose", "F", "{", p, "}", "FE", "prose">>,
            <<"prose", "{", p, "}", "prose">> } : p \in PayloadNames }
  \cup { <<"null">>, <<"str">>, <<"prose">>,
         <<"FJ", "prose", "FE", "{", "full", "}">>,
         <<"FJ", "{", "full", "}">>,
         <<"{", "full", "}", "prose", "{", "full", "}">>,
         <<"}", "null", "{">>,
         <<"{", "full">> }

\* JSON.parse
JSONParse(t) ==
  IF Len(t) = 3 /\ t[1] = "{" /\ t[3] = "}" /\ t[2] \in PayloadNames
    THEN Ok(JObject(Payloads[t[2]]))
  ELSE IF t = <<"null">> THEN Ok(JNull)
  ELSE IF t = <<"str">> THEN Ok(JString)
  ELSE Threw

\* text.indexOf(tok), text.lastIndexOf(tok): 0-based, -1 when absent
IndexOf(t, tok) ==
  LET hits == {k \in 1..Len(t) : t[k] = tok}
  IN IF hits = {} THEN -1 ELSE (CHOOSE k \in hits : \A h \in hits : k <= h) - 1
LastIndexOf(t, tok) ==
  LET hits == {k \in 1..Len(t) : t[k] = tok}
  IN IF hits = {} THEN -1 ELSE (CHOOSE k \in hits : \A h \in hits : k >= h) - 1

\* text.substring(a, b), 0-based, end exclusive; the arguments are swapped
\* when a > b
Substring(t, a, b) ==
  LET lo == Min(Max(Min(a, b), 0), Len(t))
      hi == Min(Max(Max(a, b), 0), Len(t))
  IN SubSeq(t, lo + 1, hi)

\* text.match(/<open>([\s\S]*?)\n```/): the leftmost opening fence and the
\* first closing fence after it; [found, group 1]
FenceMatch(t, open) ==
  LET o == IndexOf(t, open) + 1
      closes == {k \in 1..Len(t) : t[k] = "FE" /\ k > o}
  IN IF o = 0 \/ closes = {} THEN [found |-> FALSE]
     ELSE [found |-> TRUE,
           group |-> SubSeq(t, o + 1, (CHOOSE k \in closes : \A h \in closes : k <= h) - 1)]

\* Mutant: the braces are looked for before the fences.
parseAIResponse_BraceFirst(text) ==
  LET m1 == FenceMatch(text, "FJ")
      m2 == FenceMatch(text, "F")
      jsonMatch == IF m1.found THEN m1 ELSE m2
      firstBrace == IndexOf(text, "{")
      lastBrace == LastIndexOf(text, "}")
  IN IF firstBrace # -1 /\ lastBrace # -1
       THEN JSONParse(Substring(text, firstBrace, lastBrace + 1))
     ELSE IF jsonMatch.found THEN JSONParse(jsonMatch.group)
     ELSE JSONParse(text)

\* parseAIResponse: Threw stands for throw new Error("TriggerFallback")
parseAIResponse(text) ==
  LET m1 == FenceMatch(text, "FJ")
      m2 == FenceMatch(text, "F")
      jsonMatch == IF m1.found THEN m1 ELSE m2
      firstBrace == IndexOf(text, "{")
      lastBrace == LastIndexOf(text, "}")
  IN IF jsonMatch.found THEN JSONParse(jsonMatch.group)
     ELSE IF firstBrace # -1 /\ lastBrace # -1
       THEN JSONParse(Substring(text, firstBrace, lastBrace + 1))
     ELSE JSONParse(text)

----------------------------------------------------------------------------
(* Provider clients.  A response is what the transport delivers:           *)
(*   [type |-> "reject"]            fetch or response.json() rejects       *)
(*   [type |-> "error", message]    an error envelope; the message is a    *)
(*                                  sequence of phrases                    *)
(*   [type |-> "nocontent"]         a success envelope without reply text  *)
(*   [type |-> "text", text]        a success envelope with reply text     *)

Includes(msg, phrase) == \E k \in 1..Len(msg) : msg[k] = phrase
ToLowerCase(msg) == [k \in 1..Len(msg) |-> IF msg[k] = "Billing Error:" THEN "billing error:"
                                            ELSE msg[k]]
\* msg.includes('billing') on a lower-cased message
IncludesBilling(msg) == Includes(msg, "billing error:") \/ Includes(msg, "billing")

ErrorMessages ==
  { <<"Your", "credit balance", "is", "too low">>,
    <<"overloaded">>,
    <<"invalid x-api-key">>,
    <<"model", "not found">>,
    <<"Please", "bind your Alibaba Cloud account">> }

Responses ==
  { [type |-> "reject"], [type |-> "nocontent"] }
  \cup { [type |-> "error", message |-> m] : m \in ErrorMessages }
  \cup { [type |-> "text", text |-> t] : t \in Texts }

Err(msg) == [state |-> "threw", message |-> msg]

\* analyzeVisionWithClaude, from the response on
analyzeVisionWithClaude(resp) ==
  IF resp.type = "reject" THEN Err(<<"Failed to fetch">>)
  ELSE IF resp.type = "error" THEN
    IF Includes(resp.message, "credit balance") \/ Includes(resp.message, "too low")
       \/ Includes(resp.message, "overloaded")
      THEN Err(<<"Billing Error:">> \o resp.message)
      ELSE Err(resp.message)
  ELSE IF resp.type = "nocontent" THEN Err(<<"Received empty or invalid response from Claude.">>)
  ELSE LET r == parseAIResponse(resp.text)
       IN IF r = Threw THEN Err(<<"TriggerFallback">>) ELSE r

\* analyzeVisionWithModelScope, from the response on
analyzeVisionWithModelScope(resp) ==
  IF resp.type = "reject" THEN Err(<<"Failed to fetch">>)
  ELSE IF resp.type = "error" THEN
    IF Includes(resp.message, "bind your Alibaba Cloud account")
      THEN Err(<<"TriggerFallback">>)
      ELSE Err(resp.message)
  ELSE IF resp.type = "nocontent"
    THEN Err(<<"Received empty or invalid response from ModelScope.">>)
  ELSE LET r == parseAIResponse(resp.text)
       IN IF r = Threw THEN Err(<<"TriggerFallback">>) ELSE r

----------------------------------------------------------------------------
(* useVisionAnalysis.analyzeImages *)

StartsWith(k, prefix) ==
  Len(k) >= Len(prefix) /\ SubSeq(k, 1, Len(prefix)) = prefix

\* Mutant: only the empty string is refused (no null check, no prefix check).
KeyAccepted_NonEmpty(key) == key # <<>>

\* Mutant: the key of the other provider ('AIza') is accepted as well.
KeyAccepted_AnyProvider(key) ==
  key # Null /\ key # <<>>
  /\ (StartsWith(key, <<"s", "k", "-">>) \/ StartsWith(key, <<"A", "I", "z", "a">>))

\* claudeKey && claudeKey.startsWith('sk-')
KeyAccepted(key) == key # Null /\ key # <<>> /\ StartsWith(key, <<"s", "k", "-">>)

NoError == <<>>
NoProgress == [num |-> 0, den |-> 1]                  \* useState(0), setProgress(0)
Percent(done, total) == [num |-> done * 100, den |-> total]   \* (done / total) * 100
IsHundred(p) == p.num = 100 * p.den

\* The text of an id: the template literals `vision-${Date.now()}-${i}` and
\* `vision-simulated-${Date.now()}-${index}`, character by character; an id
\* <<prefix, t, index>> holds the parts the literal is filled with.
DigitChars == <<"0", "1", "2", "3", "4", "5", "6", "7", "8", "9">>
RECURSIVE Digits(_)
Digits(n) ==
  IF n < 10 THEN <<DigitChars[n + 1]>> ELSE Append(Digits(n \div 10), DigitChars[(n % 10) + 1])
PrefixChars(prefix) ==
  IF prefix = "vision-"
    THEN <<"v", "i", "s", "i", "o", "n", "-">>
    ELSE <<"v", "i", "s", "i", "o", "n", "-", "s", "i", "m", "u", "l", "a", "t", "e", "d", "-">>

\* Mutant: the index is left out of the id.
IdText_TimeOnly(id) == PrefixChars(id[1]) \o Digits(id[2])

IdText(id) == PrefixChars(id[1]) \o Digits(id[2]) \o <<"-">> \o Digits(id[3])

\* The object literal handed to analyses.push(...) in the try block; the
\* thrown errors are those of "if (!aiResult)" and of generateManifestationPath.
BuildRecord(aiResult, file, index, t) ==
  IF aiResult = JNull THEN Err(<<"No result from AI">>)
  ELSE IF aiResult.kind # "object" THEN Err(<<"TypeError">>)
  ELSE LET o == aiResult.obj
           mp == generateManifestationPath(o)
       IN IF mp = Threw THEN Err(<<"TypeError">>)
          ELSE Ok( ("id" :> <<"vision-", t, index>>)
                   @@ ("imageUrl" :> createObjectURL(file))
                   @@ ("uploadedAt" :> t)
                   @@ Opt("visualDNA", o)
                   @@ Opt("lifestyleInference", o)
                   @@ Opt("sensoryTriggers", o)
                   @@ Opt("sopMapping", o)
                   @@ ("manifestationPath" :> mp.val) )

\* catch (claudeError): both branches throw new Error("TriggerFallback")
ClaudeCatch(message) ==
  LET msg == ToLowerCase(message)
  IN IF Includes(msg, "credit balance") \/ IncludesBilling(msg) \/ Includes(msg, "too low")
       THEN <<"TriggerFallback">>
       ELSE <<"TriggerFallback">>

\* the throw reaches the outer catch, which awaits generateFallbackAnalysis
ToCatch(message) ==
  /\ pc' = "fallback_wait"
  /\ lastError' = message
  /\ caught' = caught \cup {i}
  /\ UNCHANGED <<analyses, progress, i>>

\* Mutant: progress reports the share of the batch that is still to do.
PushResult_Remaining(record) ==
  /\ analyses' = Append(analyses, record)
  /\ progress' = Percent(Len(files) - (i + 1), Len(files))
  /\ i' = i + 1
  /\ pc' = "loop"
  /\ lastError' = NoError
  /\ UNCHANGED caught

\* analyses.push(record); setProgress(((i + 1) / files.length) * 100)
PushResult(record) ==
  /\ analyses' = Append(analyses, record)
  /\ progress' = Percent(i + 1, Len(files))
  /\ i' = i + 1
  /\ pc' = "loop"
  /\ lastError' = NoError
  /\ UNCHANGED caught

Complete(aiResult) ==
  LET b == BuildRecord(aiResult, files[i + 1], i, now)
  IN IF b.state = "ok" THEN PushResult(b.val) ELSE ToCatch(b.message)

\* the call: setIsAnalyzing(true); setProgress(0); analyses = []; read the key
CallAnalyzeImages ==
  /\ pc = "idle"
  /\ pc' = "loop"
  /\ isAnalyzing' = TRUE
  /\ progress' = NoProgress
  /\ analyses' = <<>>
  /\ claudeKey' = storedKey
  /\ i' = 0
  /\ UNCHANGED <<files, storedKey, now, results, returned, requests, lastError, caught>>
  /\ UNCHANGED <<fallbackVars, pathVars, extVars>>

\* Mutant: the sentinel is looked at only when no key is accepted.
DemoIteration_KeyFirst ==
  /\ pc = "loop" /\ i < Len(files)
  /\ files[i + 1] = DEMO_NAME
  /\ IF KeyAccepted(claudeKey)
       THEN /\ requests' = Append(requests, <<"claude", i>>)
            /\ pc' = "claude_wait"
            /\ UNCHANGED <<analyses, progress, i, lastError, caught>>
       ELSE /\ Complete(JObject(getDemoMockResponse))
            /\ UNCHANGED requests
  /\ UNCHANGED <<files, storedKey, now, claudeKey, isAnalyzing, results, returned>>
  /\ UNCHANGED <<fallbackVars, pathVars, extVars>>

\* files[i].name === "My_Vision_Board_Demo.png"
DemoIteration ==
  /\ pc = "loop" /\ i < Len(files)
  /\ files[i + 1] = DEMO_NAME
  /\ Complete(JObject(getDemoMockResponse))
  /\ UNCHANGED <<files, storedKey, now, claudeKey, isAnalyzing, results, returned, requests>>
  /\ UNCHANGED <<fallbackVars, pathVars, extVars>>

\* analyzeVisionWithClaude up to its fetch: resizeAndConvert resolves and the
\* request is sent, or it rejects and the error is caught
ClaudeRequest ==
  /\ pc = "loop" /\ i < Len(files)
  /\ files[i + 1] # DEMO_NAME
  /\ KeyAccepted(claudeKey)
  /\ \E encoded \in BOOLEAN :
       IF encoded
         THEN /\ requests' = Append(requests, <<"claude", i>>)
              /\ pc' = "claude_wait"
              /\ UNCHANGED <<analyses, progress, i, lastError, caught>>
         ELSE /\ ToCatch(ClaudeCatch(<<"image decode error">>))
              /\ UNCHANGED requests
  /\ UNCHANGED <<files, storedKey, now, claudeKey, isAnalyzing, results, returned>>
  /\ UNCHANGED <<fallbackVars, pathVars, extVars>>

\* Mutant: a failed priority provider cascades to the secondary provider.
ClaudeResponse_Cascade ==
  /\ pc = "claude_wait"
  /\ \E resp \in Responses :
       LET r == analyzeVisionWithClaude(resp)
       IN IF r.state = "ok"
            THEN Complete(r.val) /\ UNCHANGED requests
            ELSE /\ requests' = Append(requests, <<"modelscope", i>>)
                 /\ pc' = "modelscope_wait"
                 /\ UNCHANGED <<analyses, progress, i, lastError, caught>>
  /\ UNCHANGED <<files, storedKey, now, claudeKey, isAnalyzing, results, returned>>
  /\ UNCHANGED <<fallbackVars, pathVars, extVars>>

\* the rest of analyzeVisionWithClaude and of the iteration
ClaudeResponse ==
  /\ pc = "claude_wait"
  /\ \E resp \in Responses :
       LET r == analyzeVisionWithClaude(resp)
       IN IF r.state = "ok" THEN Complete(r.val) ELSE ToCatch(ClaudeCatch(r.message))
  /\ UNCHANGED <<files, storedKey, now, claudeKey, isAnalyzing, results, returned, requests>>
  /\ UNCHANGED <<fallbackVars, pathVars, extVars>>

\* Mutant: the requests for this image and for the next one are sent together.
ModelScopeRequest_Ahead ==
  /\ pc = "loop" /\ i < Len(files)
  /\ files[i + 1] # DEMO_NAME
  /\ ~KeyAccepted(claudeKey)
  /\ requests' = IF i + 1 < Len(files)
                   THEN requests \o << <<"modelscope", i>>, <<"modelscope", i + 1>> >>
                   ELSE Append(requests, <<"modelscope", i>>)
  /\ pc' = "modelscope_wait"
  /\ UNCHANGED <<analyses, progress, i, lastError, caught>>
  /\ UNCHANGED <<files, storedKey, now, claudeKey, isAnalyzing, results, returned>>
  /\ UNCHANGED <<fallbackVars, pathVars, extVars>>

\* analyzeVisionWithModelScope up to its fetch
ModelScopeRequest ==
  /\ pc = "loop" /\ i < Len(files)
  /\ files[i + 1] # DEMO_NAME
  /\ ~KeyAccepted(claudeKey)
  /\ \E encoded \in BOOLEAN :
       IF encoded
         THEN /\ requests' = Append(requests, <<"modelscope", i>>)
              /\ pc' = "modelscope_wait"
              /\ UNCHANGED <<analyses, progress, i, lastError, caught>>
         ELSE /\ ToCatch(<<"TriggerFallback">>)
              /\ UNCHANGED requests
  /\ UNCHANGED <<files, storedKey, now, claudeKey, isAnalyzing, results, returned>>
  /\ UNCHANGED <<fallbackVars, pathVars, extVars>>

\* the rest of analyzeVisionWithModelScope and of the iteration; the inner
\* catch (msError) throws new Error("TriggerFallback")
ModelScopeResponse ==
  /\ pc = "modelscope_wait"
  /\ \E resp \in Responses :
       LET r == analyzeVisionWithModelScope(resp)
       IN IF r.state = "ok" THEN Complete(r.val) ELSE ToCatch(<<"TriggerFallback">>)
  /\ UNCHANGED <<files, storedKey, now, claudeKey, isAnalyzing, results, returned, requests>>
  /\ UNCHANGED <<fallbackVars, pathVars, extVars>>

\* Mutant: the catch block drops the image instead of substituting a profile.
FallbackResolved_Drop ==
  /\ pc = "fallback_wait"
  /\ i' = i + 1
  /\ pc' = "loop"
  /\ lastError' = NoError
  /\ UNCHANGED <<analyses, progress>>
  /\ UNCHANGED <<files, storedKey, now, claudeKey, isAnalyzing, results, returned, requests, caught>>
  /\ UNCHANGED <<fallbackVars, pathVars, extVars>>

\* the outer catch block, once generateFallbackAnalysis' timer has fired:
\* analyses.push(await generateFallbackAnalysis(files[i], i)); no setProgress
FallbackResolved ==
  /\ pc = "fallback_wait"
  /\ LET f == generateFallbackAnalysis(files[i + 1], i, now)
     IN IF f.state = "ok"
          THEN /\ analyses' = Append(analyses, f.val)
               /\ i' = i + 1
               /\ pc' = "loop"
               /\ lastError' = NoError
               /\ UNCHANGED returned
          ELSE \* a throw inside the catch block rejects the promise
               /\ pc' = "rejected"
               /\ returned' = Err(<<"TypeError">>)
               /\ UNCHANGED <<analyses, i, lastError>>
  /\ UNCHANGED progress
  /\ UNCHANGED <<files, storedKey, now, claudeKey, isAnalyzing, results, requests, caught>>
  /\ UNCHANGED <<fallbackVars, pathVars, extVars>>

\* after the loop: setResults(analyses); setIsAnalyzing(false); return analyses
Finish ==
  /\ pc = "loop" /\ i >= Len(files)
  /\ results' = analyses
  /\ isAnalyzing' = FALSE
  /\ returned' = Ok(analyses)
  /\ pc' = "done"
  /\ UNCHANGED <<files, storedKey, now, claudeKey, i, analyses, progress, requests, lastError, caught>>
  /\ UNCHANGED <<fallbackVars, pathVars, extVars>>

\* Date.now() advances while the call is running
Tick ==
  /\ pc \notin {"idle", "done", "rejected"}
  /\ now < MaxNow
  /\ now' = now + 1
  /\ UNCHANGED <<files, storedKey, pc, claudeKey, i, analyses, isAnalyzing, progress,
                 results, returned, requests, lastError, caught>>
  /\ UNCHANGED <<fallbackVars, pathVars, extVars>>

----------------------------------------------------------------------------
(* App.tsx: detectRelations *)

MaxColl == 2       \* longest collection handed to detectRelations alone
MaxBatches == 2    \* batches analysed in one history of the App
MaxUpload == 2     \* longest batch uploaded to the App
MaxToggles == 2    \* toggles while the action plan of a record is open

\* a VisionAnalysis as far as the App looks into it; rest stands for the
\* fields the App only carries along
Vision(id, colors, emotions, values) ==
  [ id |-> id,
    visualDNA |-> [colorPalette |-> colors, emotionalCore |-> emotions],
    lifestyleInference |-> [values |-> values],
    rest |-> <<"rest of", id>> ]

\* mine.filter(x => theirs.includes(x)).length: the entries of mine (each
\* position counts) that occur in theirs, under ===
SharedCount(mine, theirs) ==
  Cardinality({k \in 1..Len(mine) : \E j \in 1..Len(theirs) : theirs[j] = mine[k]})

\* similarity, in tenths: the code adds 0.2, 0.3 and 0.3 per shared entry as
\* doubles and compares with 0.5; for up to 29 shared entries per list the
\* double sum is >= 0.5 exactly when the sum of tenths is >= 5
Similarity(analysis, other) ==
  2 * SharedCount(analysis.visualDNA.colorPalette, other.visualDNA.colorPalette)
  + 3 * SharedCount(analysis.visualDNA.emotionalCore, other.visualDNA.emotionalCore)
  + 3 * SharedCount(analysis.lifestyleInference.values, other.lifestyleInference.values)
Threshold == 5     \* similarity >= 0.5, in tenths

\* the member reads of the forEach body succeed (no read of a member of
\* undefined)
Relatable(r) ==
  /\ Has(r, "visualDNA") /\ Has(r.visualDNA, "colorPalette")
  /\ Has(r.visualDNA, "emotionalCore")
  /\ Has(r, "lifestyleInference") /\ Has(r.lifestyleInference, "values")

\* Mutant: the record itself is compared as well.
Related_WithSelf(allAnalyses, index) ==
  LET upTo[k \in 0..Len(allAnalyses)] ==
        IF k = 0 THEN <<>>
        ELSE IF Similarity(allAnalyses[index], allAnalyses[k]) >= Threshold
          THEN Append(upTo[k - 1], allAnalyses[k].id)
          ELSE upTo[k - 1]
  IN upTo[Len(allAnalyses)]

\* related, for the record at position index (1-based): other.id of every
\* other position whose similarity reaches the threshold, in list order
Related(allAnalyses, index) ==
  LET upTo[k \in 0..Len(allAnalyses)] ==
        IF k = 0 THEN <<>>
        ELSE IF k # index /\ Similarity(allAnalyses[index], allAnalyses[k]) >= Threshold
          THEN Append(upTo[k - 1], allAnalyses[k].id)
          ELSE upTo[k - 1]
  IN upTo[Len(allAnalyses)]

\* Mutant: a record's related list is kept when it already has one.
detectRelations_KeepOld(allAnalyses) ==
  IF Len(allAnalyses) >= 2 /\ \E k \in 1..Len(allAnalyses) : ~Relatable(allAnalyses[k])
    THEN Threw
    ELSE Ok([index \in 1..Len(allAnalyses) |->
               allAnalyses[index] @@ ("relatedVisions" :> Related(allAnalyses, index))])

\* detectRelations: {...analysis, relatedVisions: related} for every record;
\* the forEach body is entered only for index !== otherIndex, so a TypeError
\* needs two records
detectRelations(allAnalyses) ==
  IF Len(allAnalyses) >= 2 /\ \E k \in 1..Len(allAnalyses) : ~Relatable(allAnalyses[k])
    THEN Threw
    ELSE Ok([index \in 1..Len(allAnalyses) |->
               ("relatedVisions" :> Related(allAnalyses, index)) @@ allAnalyses[index]])

RelIdle == relIn = <<>> /\ relOut = NotRun

----------------------------------------------------------------------------
(* App.tsx: the App component *)

STORAGE_KEY == "manifestation_room_visions"

\* JSON.stringify(analyses) and JSON.parse(stored): the stored string is
\* the text of the collection; records of strings, numbers and arrays come
\* back member for member
JSONStringify(collection) == <<"json", collection>>
JSONParseStored(stored) == stored[2]

NoOp == [op |-> "none"]

\* Mutant: the saving effect writes whatever the list is.
Saved_Always(store, collection) == JSONStringify(collection)

\* useEffect(..., [analyses]): localStorage.setItem when the list is not
\* empty; the stored value after the effect has run
Saved(store, collection) ==
  IF Len(collection) > 0 THEN JSONStringify(collection) ELSE store

SaveEffect(collection) == storage' = Saved(storage, collection)

\* the page is opened (or reloaded): useState initial values and the first
\* render, then the effect that loads (it reads the stored value and
\* queues setAnalyses and setStage), then the effect that saves, which
\* sees the initial empty list
OpenPage ==
  /\ uploadedImages' = <<>>
  /\ selectedAnalysis' = JNull
  /\ appAnalyses' = <<>>
  /\ stage' = "upload"
  /\ IF storage # Null
       THEN /\ appQueued' = <<"set", JSONParseStored(storage)>>
            /\ mounted' = "loading"
       ELSE /\ appQueued' = Null
            /\ mounted' = "yes"
  /\ SaveEffect(<<>>)
  /\ lastOp' = [op |-> "OpenPage"]
  /\ UNCHANGED batchNo
  /\ UNCHANGED notAppVars

\* the render that applies the queued updates of the loading effect, and
\* the saving effect, whose dependency has changed
AppRerender ==
  /\ mounted = "loading"
  /\ LET parsed == appQueued[2]
     IN /\ appAnalyses' = parsed
        /\ stage' = IF Len(parsed) > 0 THEN "manifestation" ELSE stage
        /\ SaveEffect(parsed)
  /\ appQueued' = Null
  /\ mounted' = "yes"
  /\ UNCHANGED <<uploadedImages, selectedAnalysis, batchNo, lastOp>>
  /\ UNCHANGED notAppVars

\* UploadStage calls it with at least one selected file
handleImagesUploaded(fs) ==
  /\ mounted = "yes" /\ stage = "upload"
  /\ batchNo < MaxBatches
  /\ uploadedImages' = fs
  /\ stage' = "analysis"
  /\ lastOp' = [op |-> "handleImagesUploaded"]
  /\ UNCHANGED <<mounted, appAnalyses, selectedAnalysis, storage, batchNo, appQueued>>
  /\ UNCHANGED notAppVars

\* Mutant: the new batch replaces the collection.
handleAnalysisComplete_Replace(analysisResults) ==
  /\ mounted = "yes" /\ stage = "analysis"
  /\ LET d == detectRelations(analysisResults)
     IN IF d.state = "ok"
          THEN /\ appAnalyses' = d.val
               /\ stage' = "manifestation"
               /\ SaveEffect(d.val)
               /\ UNCHANGED mounted
          ELSE /\ mounted' = "crashed"
               /\ UNCHANGED <<appAnalyses, stage, storage>>
  /\ batchNo' = batchNo + 1
  /\ lastOp' = [op |-> "handleAnalysisComplete", prev |-> appAnalyses,
                batch |-> analysisResults]
  /\ UNCHANGED <<uploadedImages, selectedAnalysis, appQueued>>
  /\ UNCHANGED notAppVars

\* setAnalyses(prev => detectRelations([...prev, ...analysisResults]));
\* setStage('manifestation'); then the saving effect.  A throw of the
\* updater is thrown by the render: no state is committed and the
\* component tree is taken down.
handleAnalysisComplete(analysisResults) ==
  /\ mounted = "yes" /\ stage = "analysis"
  /\ LET d == detectRelations(appAnalyses \o analysisResults)
     IN IF d.state = "ok"
          THEN /\ appAnalyses' = d.val
               /\ stage' = "manifestation"
               /\ SaveEffect(d.val)
               /\ UNCHANGED mounted
          ELSE /\ mounted' = "crashed"
               /\ UNCHANGED <<appAnalyses, stage, storage>>
  /\ batchNo' = batchNo + 1
  /\ lastOp' = [op |-> "handleAnalysisComplete", prev |-> appAnalyses,
                batch |-> analysisResults]
  /\ UNCHANGED <<uploadedImages, selectedAnalysis, appQueued>>
  /\ UNCHANGED notAppVars

\* ManifestationSpace calls it with a record of the collection
handleEnterVision(analysis) ==
  /\ mounted = "yes" /\ stage = "manifestation"
  /\ selectedAnalysis' = analysis
  /\ stage' = "action"
  /\ lastOp' = [op |-> "handleEnterVision"]
  /\ UNCHANGED <<mounted, uploadedImages, appAnalyses, storage, batchNo, appQueued>>
  /\ UNCHANGED notAppVars

\* Mutant: going back keeps the selection.
handleBackToSpace_KeepSelection ==
  /\ mounted = "yes" /\ stage = "action"
  /\ stage' = "manifestation"
  /\ lastOp' = [op |-> "handleBackToSpace"]
  /\ UNCHANGED <<mounted, uploadedImages, appAnalyses, selectedAnalysis, storage, batchNo,
                 appQueued>>
  /\ UNCHANGED notAppVars

handleBackToSpace ==
  /\ mounted = "yes" /\ stage = "action"
  /\ selectedAnalysis' = JNull
  /\ stage' = "manifestation"
  /\ lastOp' = [op |-> "handleBackToSpace"]
  /\ UNCHANGED <<mounted, uploadedImages, appAnalyses, storage, batchNo, appQueued>>
  /\ UNCHANGED notAppVars

handleRestart ==
  /\ mounted = "yes" /\ stage = "manifestation"
  /\ uploadedImages' = <<>>
  /\ selectedAnalysis' = JNull
  /\ stage' = "upload"
  /\ lastOp' = [op |-> "handleRestart"]
  /\ UNCHANGED <<mounted, appAnalyses, storage, batchNo, appQueued>>
  /\ UNCHANGED notAppVars

\* confirm(...) answered by the user: localStorage.removeItem, the state
\* updates, then the saving effect, which sees an empty list
handleClearAll(confirmed) ==
  /\ mounted = "yes" /\ stage = "manifestation"
  /\ IF confirmed
       THEN /\ storage' = Saved(Null, <<>>)
            /\ appAnalyses' = <<>>
            /\ uploadedImages' = <<>>
            /\ selectedAnalysis' = JNull
            /\ stage' = "upload"
       ELSE UNCHANGED <<storage, appAnalyses, uploadedImages, selectedAnalysis, stage>>
  /\ lastOp' = [op |-> "handleClearAll", confirmed |-> confirmed]
  /\ UNCHANGED <<mounted, batchNo, appQueued>>
  /\ UNCHANGED notAppVars

AppIdle ==
  /\ mounted = "no" /\ stage = "upload" /\ uploadedImages = <<>> /\ appAnalyses = <<>>
  /\ selectedAnalysis = JNull /\ storage = Null /\ batchNo = 0 /\ lastOp = NoOp
  /\ appQueued = Null

----------------------------------------------------------------------------
(* ActionPlanEnhanced.tsx: the completion state of a record's actions.     *)
(* A Set is the sequence of its members in insertion order.  React runs    *)
(* the effects of a render in order and, before the next event, applies    *)
(* the queued state updates, renders again and runs the effects whose      *)
(* dependencies changed.                                                    *)

PlanIds == { <<"vision", 1, 0>>, <<"vision", 1, 1>> }
ActionKeys == { "0-0", "0-1" }

\* `completed_actions_${analysis.id}`
CompletedKey(id) == <<"completed_actions_", id>>

\* JSON.stringify(Array.from(set)), new Set(JSON.parse(saved))
StringifySet(set) == <<"json", set>>
ParseSet(saved) == saved[2]

\* next.has(actionKey) ? next.delete(actionKey) : next.add(actionKey)
Toggle(prev, actionKey) ==
  IF \E k \in 1..Len(prev) : prev[k] = actionKey
    THEN SelectSeq(prev, LAMBDA x : x # actionKey)
    ELSE Append(prev, actionKey)

\* queued updates, applied in order: [set |-> S] or [toggle |-> key]
ApplyPending(state, queue) ==
  LET upTo[k \in 0..Len(queue)] ==
        IF k = 0 THEN state
        ELSE IF "set" \in DOMAIN queue[k] THEN queue[k].set
        ELSE Toggle(upTo[k - 1], queue[k].toggle)
  IN upTo[Len(queue)]

\* the component is mounted for a record: useState(new Set())
ApOpen(id) ==
  /\ apPc = "closed"
  /\ apRecord' = id
  /\ completedActions' = <<>>
  /\ apPending' = <<>>
  /\ apPc' = "load"
  /\ apAtMount' = completionStore[CompletedKey(id)]
  /\ apToggles' = <<>>
  /\ UNCHANGED completionStore
  /\ UNCHANGED notPlanVars

\* useEffect(..., [analysis.id]): read the saved set
ApLoadEffect ==
  /\ apPc = "load"
  /\ LET saved == completionStore[CompletedKey(apRecord)]
     IN apPending' = IF saved # Null THEN Append(apPending, [set |-> ParseSet(saved)])
                     ELSE apPending
  /\ apPc' = "save"
  /\ UNCHANGED <<completionStore, apRecord, completedActions, apAtMount, apToggles>>
  /\ UNCHANGED notPlanVars

\* Mutant: one key for the completion sets of all records.
ApSaveEffect_OneKey ==
  /\ apPc = "save"
  /\ completionStore' = [k \in DOMAIN completionStore |-> StringifySet(completedActions)]
  /\ apPc' = IF apPending # <<>> THEN "rerender" ELSE "ready"
  /\ UNCHANGED <<apRecord, completedActions, apPending, apAtMount, apToggles>>
  /\ UNCHANGED notPlanVars

\* useEffect(..., [completedActions, analysis.id]): write the set of this render
ApSaveEffect ==
  /\ apPc = "save"
  /\ completionStore' = [completionStore EXCEPT
                           ![CompletedKey(apRecord)] = StringifySet(completedActions)]
  /\ apPc' = IF apPending # <<>> THEN "rerender" ELSE "ready"
  /\ UNCHANGED <<apRecord, completedActions, apPending, apAtMount, apToggles>>
  /\ UNCHANGED notPlanVars

\* Mutant: the saving effect does not depend on completedActions.
ApRerender_NoSave ==
  /\ apPc = "rerender"
  /\ completedActions' = ApplyPending(completedActions, apPending)
  /\ apPending' = <<>>
  /\ apPc' = "ready"
  /\ UNCHANGED <<completionStore, apRecord, apAtMount, apToggles>>
  /\ UNCHANGED notPlanVars

\* the queued updates are applied and the component renders again; the new
\* Set is a new object, so the saving effect runs
ApRerender ==
  /\ apPc = "rerender"
  /\ completedActions' = ApplyPending(completedActions, apPending)
  /\ apPending' = <<>>
  /\ apPc' = "save"
  /\ UNCHANGED <<completionStore, apRecord, apAtMount, apToggles>>
  /\ UNCHANGED notPlanVars

\* toggleAction: setCompletedActions(prev => ...)
toggleAction(actionKey) ==
  /\ apPc = "ready"
  /\ Len(apToggles) < MaxToggles
  /\ apPending' = Append(apPending, [toggle |-> actionKey])
  /\ apPc' = "rerender"
  /\ apToggles' = Append(apToggles, actionKey)
  /\ UNCHANGED <<completionStore, apRecord, completedActions, apAtMount>>
  /\ UNCHANGED notPlanVars

\* onBack: the component is unmounted
ApClose ==
  /\ apPc = "ready"
  /\ apPc' = "closed"
  /\ apRecord' = Null
  /\ UNCHANGED <<completionStore, completedActions, apPending, apAtMount, apToggles>>
  /\ UNCHANGED notPlanVars

PlanClosed ==
  /\ apRecord = Null /\ apPc = "closed" /\ completedActions = <<>> /\ apPending = <<>>
  /\ apAtMount = Null /\ apToggles = <<>>
PlanIdle ==
  /\ completionStore = [k \in { CompletedKey(id) : id \in PlanIds } |-> Null]
  /\ PlanClosed

----------------------------------------------------------------------------
(* enhanced-analysis.tsx: resizeAndConvert.  The sizes are doubles in the  *)
(* code; a canvas dimension is the integer part of the double assigned.    *)

MAX_SIZE == 1024

\* 2^n modulo m
RECURSIVE Pow2Mod(_, _)
Pow2Mod(n, m) == IF n = 0 THEN 1 % m ELSE (2 * Pow2Mod(n - 1, m)) % m

RECURSIVE Pow2(_)
Pow2(n) == IF n = 0 THEN 1 ELSE 2 * Pow2(n - 1)

\* the position of the leading bit of q >= 1
RECURSIVE FloorLog2(_)
FloorLog2(q) == IF q < 2 THEN 0 ELSE 1 + FloorLog2(q \div 2)

\* the binary exponent of MAX_SIZE / longer for longer > MAX_SIZE:
\* the k with 2^-k <= MAX_SIZE / longer < 2^-(k-1)
RECURSIVE FactorExponent(_, _)
FactorExponent(longer, k) ==
  IF longer <= MAX_SIZE * Pow2(k) THEN k ELSE FactorExponent(longer, k + 1)

\* Mutant: the scaled edge is rounded up to the next pixel.
ScaledEdge_Ceil(edge, longer) == ((edge * MAX_SIZE) + longer - 1) \div longer

\* edge *= MAX_SIZE / longer, then the integer part: the factor is the
\* quotient rounded to a 53-bit significand, the product is rounded again.
\* When the exact value edge * MAX_SIZE / longer is no integer, it is at
\* least 1/longer away from one, far more than the two roundings move it,
\* and the integer part is that of the exact value.  When it is an integer
\* q, the product falls below q exactly when the factor was rounded down
\* (remainder r of 2^(62+k) by longer below longer/2) and the shortfall
\* edge * r / longer, in units of 2^-(52+k), is more than half the spacing
\* of the doubles just below q.
ScaledEdge(edge, longer) ==
  LET q == (edge * MAX_SIZE) \div longer
      k == FactorExponent(longer, 1)
      r == Pow2Mod(62 + k, longer)
      shortfall == (edge * r) \div longer
      below == IF q = Pow2(FloorLog2(q)) THEN FloorLog2(q) - 1 ELSE FloorLog2(q)
  IN  IF (edge * MAX_SIZE) % longer # 0 THEN q
      ELSE IF r # 0 /\ 2 * r < longer /\ 2 * shortfall > Pow2(below + k) THEN q - 1
      ELSE q

\* the if / else of img.onload: the canvas size for an image of the given size
CanvasSize(width, height) ==
  IF width > height
  THEN IF width > MAX_SIZE
       THEN [width |-> MAX_SIZE, height |-> ScaledEdge(height, width)]
       ELSE [width |-> width, height |-> height]
  ELSE IF height > MAX_SIZE
       THEN [width |-> ScaledEdge(width, height), height |-> MAX_SIZE]
       ELSE [width |-> width, height |-> height]

\* canvas.toDataURL('image/jpeg', 0.8).split(',')[1]: a canvas without
\* pixels gives "data:,", whose part after the comma is the empty string
CanvasData(size) == IF size.width = 0 \/ size.height = 0 THEN "" ELSE "jpeg"

\* resizeAndConvert: img.onerror rejects; img.onload resolves
resizeAndConvert(width, height, decodes) ==
  IF ~decodes THEN Threw
  ELSE LET size == CanvasSize(width, height)
       IN  Ok([width |-> size.width, height |-> size.height, data |-> CanvasData(size)])

ResizeIdle == rWidth = 1 /\ rHeight = 1 /\ rDecodes = TRUE /\ rOut = NotRun

----------------------------------------------------------------------------
(* daily-manifestation.tsx: the tasks of a day *)

\* Math.min(Math.floor(daysSinceUpload / 7) + 1, 4)
currentWeek(daysSinceUpload) == Min((daysSinceUpload \div 7) + 1, 4)

\* The optional reads below only feed ||, which treats undefined and ''
\* alike: '' stands for both.
\* o?.[k]?.[0]
FirstOf(o, k) == IF Has(o, k) /\ Len(o[k]) >= 1 THEN o[k][1] ELSE ""
\* a || b
OrElse(a, b) == IF a = "" THEN b ELSE a
\* o?.[k] for a string member
Member(o, k) == IF Has(o, k) THEN o[k] ELSE ""
Part(o, k) == IF Has(o, k) THEN o[k] ELSE NoObj

Task(analysis, dayIndex, suffix, category, time, action, fromModule) ==
  [ id |-> <<"task", analysis.id, dayIndex, suffix>>, category |-> category, time |-> time,
    action |-> action, fromModule |-> fromModule, completed |-> FALSE ]

\* 1. the morning task
MorningTask(analysis, dayIndex) ==
  LET sopMapping == IF Has(analysis, "sopMapping") THEN analysis.sopMapping ELSE <<>>
      k == FindIndex(sopMapping, "module", "DAILY_ROUTINE")
      routine == IF k = 0 THEN "" ELSE FirstOf(sopMapping[k], "actions")
      ritual == FirstOf(Part(analysis, "lifestyleInference"), "dailyRituals")
  IN Task(analysis, dayIndex, "morning", "morning", "07:00 AM",
          OrElse(OrElse(routine, ritual), "Morning meditation"), "DAILY_ROUTINE")

\* week + 1, the week whose entry is looked up
PlanWeek(dayIndex) == (dayIndex \div 7) + 1

\* 2. the afternoon task: none, or one
AfternoonTasks(analysis, dayIndex) ==
  LET dayOfWeek == dayIndex % 7
      mp == IF Has(analysis, "manifestationPath") THEN analysis.manifestationPath ELSE <<>>
      w == FindIndex(mp, "week", PlanWeek(dayIndex))
      sopModules == IF Has(analysis, "sopMapping") THEN analysis.sopMapping ELSE <<>>
  IN IF w # 0 /\ Len(mp[w].actions) > 0
       THEN << Task(analysis, dayIndex, "afternoon", "afternoon", "02:00 PM",
                    mp[w].actions[(dayOfWeek % Len(mp[w].actions)) + 1],
                    <<"WEEK", PlanWeek(dayIndex), "FOCUS">>) >>
       ELSE IF Len(sopModules) > 0
              THEN LET sopModule == sopModules[(dayOfWeek % Len(sopModules)) + 1]
                   IN IF Len(sopModule.actions) > 0
                        THEN << Task(analysis, dayIndex, "afternoon-sop", "afternoon",
                                     "03:00 PM", sopModule.actions[1], sopModule.module) >>
                        ELSE <<>>
              ELSE <<>>

\* 3. the evening task
EveningTask(analysis, dayIndex) ==
  LET todaySense == <<"smell", "sound", "touch", "visual">>[(dayIndex % 4) + 1]
      triggers == Part(analysis, "sensoryTriggers")
      senseAction ==
        IF todaySense = "smell"
          THEN <<"Experience: ", OrElse(Member(triggers, "smell"), "Deep breathing")>>
        ELSE IF todaySense = "sound"
          THEN <<"Listen to: ", OrElse(Member(triggers, "sound"), "Nature sounds")>>
        ELSE IF todaySense = "touch"
          THEN <<"Interact with: ", OrElse(Member(triggers, "touch"), "Texture awareness")>>
        ELSE <<"Observe lighting: ",
               OrElse(Member(Part(analysis, "visualDNA"), "lighting"), "Candlelight")>>
  IN Task(analysis, dayIndex, "evening", "evening", "08:00 PM", senseAction,
          "SENSORY_ANCHORING")

generateDailyTasks(analysis, dayIndex) ==
  <<MorningTask(analysis, dayIndex)>> \o AfternoonTasks(analysis, dayIndex)
    \o <<EveningTask(analysis, dayIndex)>>

DailyIdle == dAnalysis = NoObj /\ dDay = 0 /\ dWeek = 0 /\ dTasks = NotRun

----------------------------------------------------------------------------
(* src/unnamed/part_005: the App that keeps its visions on a server        *)
(* (api in src/unnamed/part_000).  Each await is a point where the other   *)
(* handlers and the replies of the other requests can come in between.     *)

MaxCreates == 2    \* creations started in one history

\* what analyzeImages([file]) returns as results[0], as far as this App
\* looks into it
ServerVision(t, url) == [id |-> <<"vision-", t, 0>>, imageUrl |-> url]

VisionIds(list) == { list[k].id : k \in 1..Len(list) }

\* list.filter(v => v.id !== id)
RECURSIVE WithoutId(_, _)
WithoutId(list, id) ==
  IF list = <<>> THEN <<>>
  ELSE IF list[1].id = id THEN WithoutId(Tail(list), id)
  ELSE <<list[1]>> \o WithoutId(Tail(list), id)

\* the server answers GET /visions with what it holds, or the request
\* fails: getVisions resolves with the list or rejects
getVisionsReply(ok) ==
  /\ loadPc = "waiting"
  /\ loadReply' = IF ok THEN Ok(db) ELSE Threw
  /\ loadPc' = "replied"
  /\ UNCHANGED <<view, selectedVision, visions, loading, db, createPc, createKind,
                 createResult, createReply, creates, deletePc, deleteId, deleteReply,
                 added, deleted, lastCreate>>
  /\ UNCHANGED notServerVars

\* loadVisions after its await: setVisions(data) or console.error, and
\* finally setLoading(false)
loadVisions ==
  /\ loadPc = "replied"
  /\ visions' = IF loadReply.state = "ok" THEN loadReply.val ELSE visions
  /\ loading' = FALSE
  /\ loadPc' = "done"
  /\ UNCHANGED <<view, selectedVision, db, loadReply, createPc, createKind,
                 createResult, createReply, creates, deletePc, deleteId, deleteReply,
                 added, deleted, lastCreate>>
  /\ UNCHANGED notServerVars

\* handleCreate up to its first await: setLoading(true), uploadImage(file)
handleCreate ==
  /\ view = "create" /\ createPc = "idle"
  /\ creates < MaxCreates
  /\ loading' = TRUE
  /\ createKind' = "upload"
  /\ createPc' = "upload"
  /\ creates' = creates + 1
  /\ UNCHANGED <<view, selectedVision, visions, db, loadPc, loadReply, createResult,
                 createReply, deletePc, deleteId, deleteReply, added, deleted, lastCreate>>
  /\ UNCHANGED notServerVars

\* uploadImage settles: on a rejection the catch block alerts; otherwise
\* analyzeImages([file]) is called
CreateAfterUpload(ok) ==
  /\ createPc = "upload"
  /\ IF ok
       THEN /\ createPc' = "analysis"
            /\ UNCHANGED lastCreate
       ELSE /\ createPc' = "idle"
            /\ lastCreate' = "upload: upload failed"
  /\ UNCHANGED <<view, selectedVision, visions, loading, db, loadPc, loadReply, createKind,
                 createResult, createReply, creates, deletePc, deleteId, deleteReply,
                 added, deleted>>
  /\ UNCHANGED notServerVars

\* handleDemoCreate up to its first await: analyzeImages([dummyFile])
handleDemoCreate ==
  /\ view = "create" /\ createPc = "idle"
  /\ creates < MaxCreates
  /\ createKind' = "demo"
  /\ createPc' = "analysis"
  /\ creates' = creates + 1
  /\ UNCHANGED <<view, selectedVision, visions, loading, db, loadPc, loadReply,
                 createResult, createReply, deletePc, deleteId, deleteReply, added,
                 deleted, lastCreate>>
  /\ UNCHANGED notServerVars

\* analyzeImages resolves (it never rejects): the result gets its imageUrl
\* and saveVision is called
CreateAfterAnalysis ==
  /\ createPc = "analysis"
  /\ createResult' = ServerVision(creates, IF createKind = "upload" THEN "publicUrl"
                                           ELSE "placeholder")
  /\ createPc' = "save"
  /\ UNCHANGED <<view, selectedVision, visions, loading, db, loadPc, loadReply, createKind,
                 createReply, creates, deletePc, deleteId, deleteReply, added, deleted,
                 lastCreate>>
  /\ UNCHANGED notServerVars

\* the server handles POST /visions, or the request fails
saveVisionReply(ok) ==
  /\ createPc = "save"
  /\ db' = IF ok THEN <<createResult>> \o db ELSE db
  /\ createReply' = ok
  /\ createPc' = "saved"
  /\ UNCHANGED <<view, selectedVision, visions, loading, loadPc, loadReply, createKind,
                 createResult, creates, deletePc, deleteId, deleteReply, added, deleted,
                 lastCreate>>
  /\ UNCHANGED notServerVars

\* saveVision settles: setVisions(prev => [finalResult, ...prev]),
\* setSelectedVision, setView('detail'); on a rejection handleCreate alerts
\* and handleDemoCreate's promise rejects
CreateAfterSave ==
  /\ createPc = "saved"
  /\ IF createReply
       THEN /\ visions' = <<createResult>> \o visions
            /\ selectedVision' = createResult
            /\ view' = "detail"
            /\ added' = added \cup {createResult.id}
            /\ lastCreate' = IF createKind = "upload" THEN "upload: saved" ELSE "demo: saved"
       ELSE /\ lastCreate' = IF createKind = "upload" THEN "upload: save failed"
                                                      ELSE "demo: save failed"
            /\ UNCHANGED <<visions, selectedVision, view, added>>
  /\ createPc' = "idle"
  /\ UNCHANGED <<loading, db, loadPc, loadReply, createKind, createResult, createReply,
                 creates, deletePc, deleteId, deleteReply, deleted>>
  /\ UNCHANGED notServerVars

\* handleDelete up to its await: confirm(...), deleteVision(id); the delete
\* buttons are on the cards of the dashboard
handleDelete(id, confirmed) ==
  /\ view = "dashboard" /\ ~loading /\ deletePc = "idle"
  /\ id \in VisionIds(visions)
  /\ IF confirmed
       THEN /\ deletePc' = "waiting"
            /\ deleteId' = id
            /\ deleted' = deleted \cup {id}
       ELSE UNCHANGED <<deletePc, deleteId, deleted>>
  /\ UNCHANGED <<view, selectedVision, visions, loading, db, loadPc, loadReply, createPc,
                 createKind, createResult, createReply, creates, deleteReply, added,
                 lastCreate>>
  /\ UNCHANGED notServerVars

\* the server handles DELETE /visions/<id>, or the request fails
deleteVisionReply(ok) ==
  /\ deletePc = "waiting"
  /\ db' = IF ok THEN WithoutId(db, deleteId) ELSE db
  /\ deleteReply' = ok
  /\ deletePc' = "replied"
  /\ UNCHANGED <<view, selectedVision, visions, loading, loadPc, loadReply, createPc,
                 createKind, createResult, createReply, creates, deleteId, added, deleted,
                 lastCreate>>
  /\ UNCHANGED notServerVars

\* handleDelete after its await: the filter and the way back to the
\* dashboard, or alert("Failed to delete")
DeleteAfterReply ==
  /\ deletePc = "replied"
  /\ IF deleteReply
       THEN /\ visions' = WithoutId(visions, deleteId)
            /\ IF selectedVision # JNull /\ selectedVision.id = deleteId
                 THEN selectedVision' = JNull /\ view' = "dashboard"
                 ELSE UNCHANGED <<selectedVision, view>>
       ELSE UNCHANGED <<visions, selectedVision, view>>
  /\ deletePc' = "idle"
  /\ UNCHANGED <<loading, db, loadPc, loadReply, createPc, createKind, createResult,
                 createReply, creates, deleteId, deleteReply, added, deleted, lastCreate>>
  /\ UNCHANGED notServerVars

\* setView(v) of the layout's navigation and of the onCreate / onBack props
setView(v) ==
  /\ view # v
  /\ view' = v
  /\ UNCHANGED <<selectedVision, visions, loading, db, loadPc, loadReply, createPc,
                 createKind, createResult, createReply, creates, deletePc, deleteId,
                 deleteReply, added, deleted, lastCreate>>
  /\ UNCHANGED notServerVars

\* onSelect(v) of a card of the dashboard
onSelect(k) ==
  /\ view = "dashboard" /\ ~loading
  /\ k \in 1..Len(visions)
  /\ selectedVision' = visions[k]
  /\ view' = "detail"
  /\ UNCHANGED <<visions, loading, db, loadPc, loadReply, createPc, createKind,
                 createResult, createReply, creates, deletePc, deleteId, deleteReply,
                 added, deleted, lastCreate>>
  /\ UNCHANGED notServerVars

\* the App before it is mounted
ServerIdle ==
  /\ view = "dashboard" /\ selectedVision = JNull /\ visions = <<>> /\ loading = TRUE
  /\ db = <<>> /\ loadPc = "none" /\ loadReply = NotRun
  /\ createPc = "idle" /\ createKind = "upload" /\ createResult = JNull
  /\ createReply = FALSE /\ creates = 0
  /\ deletePc = "idle" /\ deleteId = <<>> /\ deleteReply = FALSE
  /\ added = {} /\ deleted = {} /\ lastCreate = "none"

TailIdle == PlanIdle /\ ResizeIdle /\ DailyIdle /\ ServerIdle

----------------------------------------------------------------------------
(* src/unnamed/part_003: the earlier provider client with model variants *)

\* parseAIResponse of that file: one fence pattern (```json), the error is
\* new Error("AI response format error")
parseAIResponse_part003(text) ==
  LET jsonMatch == FenceMatch(text, "FJ")
      firstBrace == IndexOf(text, "{")
      lastBrace == LastIndexOf(text, "}")
  IN IF jsonMatch.found THEN JSONParse(jsonMatch.group)
     ELSE IF firstBrace # -1 /\ lastBrace # -1
       THEN JSONParse(Substring(text, firstBrace, lastBrace + 1))
     ELSE JSONParse(text)

models == << "gemini-1.5-flash", "gemini-1.5-pro", "gemini-1.5-flash-001",
             "gemini-1.5-pro-001", "gemini-pro-vision" >>

\* data.error of the provider: the message is what the client reads; the
\* category says what the provider reported
GeminiErrors ==
  { [category |-> "model unavailable", message |-> <<"models/x is", "not found">>],
    [category |-> "model unavailable", message |-> <<"model is", "not supported">>],
    [category |-> "bad credential", message |-> <<"API key", "not valid">>],
    [category |-> "access denied", message |-> <<"PERMISSION", "denied">>],
    [category |-> "quota exhausted", message |-> <<"Resource has been exhausted", "check quota">>],
    [category |-> "internal", message |-> <<"internal error">>] }

GeminiTexts ==
  { <<"{", "full", "}">>, <<"FJ", "{", "noDNA", "}", "FE">>,
    <<"prose", "{", "full", "}", "prose">>, <<"prose">>, <<"FJ", "prose", "FE">> }

GeminiResponses ==
  { [type |-> "reject"], [type |-> "nocontent"] }
  \cup { [type |-> "error", error |-> e] : e \in GeminiErrors }
  \cup { [type |-> "text", text |-> t] : t \in GeminiTexts }

\* one pass of the try block, from the response on:
\*   [to |-> "return", val]      return parseAIResponse(...)
\*   [to |-> "continue", error]  the continue of the "not found" branch
\*   [to |-> "catch", error]     a throw, caught by catch (e)
GeminiTry(resp) ==
  IF resp.type = "reject" THEN [to |-> "catch", error |-> <<"Failed to fetch">>]
  ELSE IF resp.type = "error" THEN
    IF Includes(resp.error.message, "not found") \/ Includes(resp.error.message, "not supported")
      THEN [to |-> "continue", error |-> resp.error.message]
      ELSE [to |-> "catch", error |-> resp.error.message]
  ELSE IF resp.type = "nocontent" THEN [to |-> "catch", error |-> <<"Invalid response">>]
  ELSE LET r == parseAIResponse_part003(resp.text)
       IN IF r = Threw THEN [to |-> "catch", error |-> <<"AI response format error">>]
          ELSE [to |-> "return", val |-> r.val]

\* Mutant: the catch block never breaks out of the loop.
GeminiBreaks_Never(e) == FALSE

\* e.message?.includes('API key') || e.message?.includes('PERMISSION')
GeminiBreaks(e) == Includes(e, "API key") \/ Includes(e, "PERMISSION")

\* the call, up to await fileToBase64(imageFile)
GeminiCall ==
  /\ gPc = "idle"
  /\ gPc' = "encoding"
  /\ UNCHANGED <<gModel, gRequests, gReplies, gLastError, gOut>>
  /\ UNCHANGED notGeminiVars

\* fileToBase64 settles: a rejection rejects the call (it is outside the
\* try); otherwise the loop starts and the first variant is requested
GeminiEncoded ==
  /\ gPc = "encoding"
  /\ \E encoded \in BOOLEAN :
       IF encoded
         THEN /\ gPc' = "wait"
              /\ gRequests' = Append(gRequests, models[1])
              /\ UNCHANGED gOut
         ELSE /\ gPc' = "settled"
              /\ gOut' = Err(<<"read error">>)
              /\ UNCHANGED gRequests
  /\ UNCHANGED <<gModel, gReplies, gLastError>>
  /\ UNCHANGED notGeminiVars

\* the response of the variant models[gModel]: return, or go on to the
\* next variant (which is requested at once), or leave the loop and throw
GeminiResponse ==
  /\ gPc = "wait"
  /\ \E resp \in GeminiResponses :
       LET t == GeminiTry(resp)
           leave == \/ t.to = "catch" /\ GeminiBreaks(t.error)
                    \/ gModel + 1 >= Len(models)
       IN /\ gReplies' = Append(gReplies, resp)
          /\ IF t.to = "return"
               THEN /\ gOut' = Ok(t.val)
                    /\ gPc' = "settled"
                    /\ UNCHANGED <<gModel, gRequests, gLastError>>
               ELSE /\ gLastError' = t.error
                    /\ IF leave
                         THEN /\ gOut' = Err(t.error)   \* throw lastError || ...
                              /\ gPc' = "settled"
                              /\ UNCHANGED <<gModel, gRequests>>
                         ELSE /\ gModel' = gModel + 1
                              /\ gRequests' = Append(gRequests, models[gModel + 2])
                              /\ UNCHANGED <<gPc, gOut>>
  /\ UNCHANGED notGeminiVars

GeminiIdle ==
  /\ gPc = "idle" /\ gModel = 0 /\ gRequests = <<>> /\ gReplies = <<>>
  /\ gLastError = NoError /\ gOut = NotRun

ParseIdle == pText = <<>> /\ pOut = NotRun

ExtIdle == RelIdle /\ AppIdle /\ ParseIdle /\ GeminiIdle /\ TailIdle

----------------------------------------------------------------------------
(* Inputs and specifications *)

FileNames == {DEMO_NAME, "a.png", "b.png"}
BatchNames == {DEMO_NAME, "a.png"}
FileLists == UNION { [1..n -> BatchNames] : n \in 0..MaxFiles }
Keys == { Null, <<>>, <<"s", "k", "-", "a">>, <<"A", "I", "z", "a">>, <<"s", "k">> }

HookIdle ==
  /\ now = 0 /\ pc = "idle" /\ claudeKey = Null /\ i = 0 /\ analyses = <<>>
  /\ isAnalyzing = FALSE /\ progress = NoProgress /\ results = <<>>
  /\ returned = NotRun /\ requests = <<>> /\ lastError = NoError /\ caught = {}
FallbackIdle == fIndex = 0 /\ fFile = "a.png" /\ fOut = NotRun
PathIdle == sop = <<>> /\ path = NotRun

Init ==
  /\ files \in FileLists
  /\ storedKey \in Keys
  /\ HookIdle /\ FallbackIdle /\ PathIdle /\ ExtIdle

Next ==
  \/ CallAnalyzeImages
  \/ DemoIteration
  \/ ClaudeRequest
  \/ ClaudeResponse
  \/ ModelScopeRequest
  \/ ModelScopeResponse
  \/ FallbackResolved
  \/ Finish
  \/ Tick

Spec == Init /\ [][Next]_vars

\* generateFallbackAnalysis on its own
ApplyFallback ==
  /\ fOut = NotRun
  /\ fOut' = generateFallbackAnalysis(fFile, fIndex, now)
  /\ UNCHANGED <<fIndex, fFile>>
  /\ UNCHANGED <<hookVars, pathVars, extVars>>

InitFallback ==
  /\ fIndex \in 0..MaxIndex
  /\ fFile \in FileNames
  /\ fOut = NotRun
  /\ files = <<>> /\ storedKey = Null /\ now \in 0..MaxNow
  /\ pc = "idle" /\ claudeKey = Null /\ i = 0 /\ analyses = <<>>
  /\ isAnalyzing = FALSE /\ progress = NoProgress /\ results = <<>>
  /\ returned = NotRun /\ requests = <<>> /\ lastError = NoError /\ caught = {}
  /\ PathIdle /\ ExtIdle

SpecFallback == InitFallback /\ [][ApplyFallback]_vars

\* generateManifestationPath on its own
SopModules == {"WRITE_PLAN", "PLAN", "DO", "CHECK"}
SopSubSystems == {SS_Inventory, SS_Nutrition, SS_RIA, SS_Inbox}
SopActions == { <<>>, <<"">>, <<"act 1", "act 2">> }
SopEntries == { Entry(m, s, "cue", a) : m \in SopModules, s \in SopSubSystems, a \in SopActions }
SopInputs ==
  UNION { [1..n -> SopEntries] : n \in 0..MaxSop }
  \cup { getDemoMockResponse.sopMapping, LiveSop }
  \cup { MOCK_PROFILES[k].sopMapping : k \in 1..Len(MOCK_PROFILES) }

ApplyPath ==
  /\ path = NotRun
  /\ path' = generateManifestationPath([sopMapping |-> sop])
  /\ UNCHANGED sop
  /\ UNCHANGED <<hookVars, fallbackVars, extVars>>

InitPath ==
  /\ sop \in SopInputs
  /\ path = NotRun
  /\ files = <<>> /\ storedKey = Null
  /\ HookIdle /\ FallbackIdle /\ ExtIdle

SpecPath == InitPath /\ [][ApplyPath]_vars

\* detectRelations on its own
RelColors == { <<>>, <<"#a">>, <<"#a", "#a", "#a">>, <<"#A">>, <<"#a", "#b">> }
RelEmotions == { <<>>, <<"calm">>, <<"calm", "bold">>, <<"Calm">> }
RelValues == { <<>>, <<"nature">> }
RelRecords(id) ==
  { Vision(id, c, e, v) : c \in RelColors, e \in RelEmotions, v \in RelValues }
  \cup { Without(Vision(id, <<"#a">>, <<"calm">>, <<>>), "visualDNA") }
RelCollections(n) ==
  { c \in [1..n -> UNION { RelRecords(<<"vision", k>>) : k \in 1..n }] :
      \A k \in 1..n : c[k].id = <<"vision", k>> }

ApplyRelations ==
  /\ relOut = NotRun
  /\ relOut' = detectRelations(relIn)
  /\ UNCHANGED relIn
  /\ UNCHANGED <<hookVars, fallbackVars, pathVars, appVars, parseVars, geminiVars, tailVars>>

InitRelations ==
  /\ relIn \in UNION { RelCollections(n) : n \in 0..MaxColl }
  /\ relOut = NotRun
  /\ files = <<>> /\ storedKey = Null
  /\ HookIdle /\ FallbackIdle /\ PathIdle /\ AppIdle /\ ParseIdle /\ GeminiIdle /\ TailIdle

SpecRelations == InitRelations /\ [][ApplyRelations]_vars

\* the App component
AppShapes ==
  { [colors |-> <<"#a">>, emotions |-> <<"calm", "bold">>, values |-> <<>>],
    [colors |-> <<"#a", "#a", "#a">>, emotions |-> <<>>, values |-> <<"nature">>] }

\* what the analysis of the uploaded images hands to handleAnalysisComplete:
\* one record per image, ids vision-<time>-<index>
AppBatches(fs, t) ==
  { b \in [1..Len(fs) ->
             UNION { { Vision(<<"vision", t, k - 1>>, s.colors, s.emotions, s.values) : s \in AppShapes }
                     \cup { Without(Vision(<<"vision", t, k - 1>>, <<"#a">>, <<>>, <<>>), "visualDNA") }
                     : k \in 1..Len(fs) }] :
      \A k \in 1..Len(fs) : b[k].id = <<"vision", t, k - 1>> }

AppUploads == UNION { [1..n -> {"a.png"}] : n \in 1..MaxUpload }

NextApp ==
  \/ OpenPage
  \/ AppRerender
  \/ \E fs \in AppUploads : handleImagesUploaded(fs)
  \/ \E b \in AppBatches(uploadedImages, batchNo) : handleAnalysisComplete(b)
  \/ \E k \in 1..Len(appAnalyses) : handleEnterVision(appAnalyses[k])
  \/ handleBackToSpace
  \/ handleRestart
  \/ \E confirmed \in BOOLEAN : handleClearAll(confirmed)

\* what the key may hold when the page is opened: nothing, the text of an
\* empty list, or a collection an earlier visit has saved
AppStored ==
  { Null, JSONStringify(<<>>) }
  \cup { JSONStringify(detectRelations(<<Vision(<<"vision", -1, 0>>, s.colors, s.emotions,
                                                s.values)>>).val) : s \in AppShapes }

InitApp ==
  /\ files = <<>> /\ storedKey = Null
  /\ HookIdle /\ FallbackIdle /\ PathIdle
  /\ RelIdle /\ ParseIdle /\ GeminiIdle /\ TailIdle
  /\ mounted = "no" /\ stage = "upload" /\ uploadedImages = <<>> /\ appAnalyses = <<>>
  /\ selectedAnalysis = JNull /\ batchNo = 0 /\ lastOp = NoOp /\ appQueued = Null
  /\ storage \in AppStored

SpecApp == InitApp /\ [][NextApp]_vars

\* parseAIResponse on its own
ParseTexts ==
  Texts
  \cup UNION { { <<"F", "{", p, "}", "FE">>,
                 <<"prose", "FJ", "{", p, "}", "FE">>,
                 <<"FJ", "{", p, "}", "FE", "prose", "{", "full", "}">>,
                 <<"{", p, "}", "prose">>,
                 <<"prose", "{", p, "}">> } : p \in PayloadNames }
  \cup { <<"FJ", "prose", "FE">>, <<"F", "prose", "FE", "FJ", "{", "full", "}", "FE">>,
         <<"FJ", "null", "FE">>, <<"prose", "}">>, <<"{", "prose", "}">> }

ApplyParse ==
  /\ pOut = NotRun
  /\ pOut' = parseAIResponse(pText)
  /\ UNCHANGED pText
  /\ UNCHANGED <<hookVars, fallbackVars, pathVars, relVars, appVars, geminiVars, tailVars>>

InitParse ==
  /\ pText \in ParseTexts
  /\ pOut = NotRun
  /\ files = <<>> /\ storedKey = Null
  /\ HookIdle /\ FallbackIdle /\ PathIdle /\ RelIdle /\ AppIdle /\ GeminiIdle /\ TailIdle

SpecParse == InitParse /\ [][ApplyParse]_vars

\* analyzeVisionWithGemini on its own
NextGemini ==
  \/ GeminiCall
  \/ GeminiEncoded
  \/ GeminiResponse

InitGemini ==
  /\ files = <<>> /\ storedKey = Null
  /\ HookIdle /\ FallbackIdle /\ PathIdle /\ ExtIdle

SpecGemini == InitGemini /\ [][NextGemini]_vars

\* ActionPlanEnhanced, opened and closed for one record after the other
NextPlan ==
  \/ \E id \in PlanIds : ApOpen(id)
  \/ ApLoadEffect
  \/ ApSaveEffect
  \/ ApRerender
  \/ \E actionKey \in ActionKeys : toggleAction(actionKey)
  \/ ApClose

\* what earlier visits may have left in the store
StoredSets == { Null, StringifySet(<<>>), StringifySet(<<"0-1">>), StringifySet(<<"0-1", "0-0">>) }

InitPlan ==
  /\ completionStore \in [{ CompletedKey(id) : id \in PlanIds } -> StoredSets]
  /\ PlanClosed
  /\ files = <<>> /\ storedKey = Null
  /\ HookIdle /\ FallbackIdle /\ PathIdle
  /\ RelIdle /\ AppIdle /\ ParseIdle /\ GeminiIdle
  /\ ResizeIdle /\ DailyIdle /\ ServerIdle

SpecPlan == InitPlan /\ [][NextPlan]_vars

\* resizeAndConvert applied to a file of every enumerated size
ResizeEdges == { 1, 3, 161, 561, 640, 1023, 1024, 1025, 1122, 1288, 2000, 2048, 4096 }

ApplyResize ==
  /\ rOut = NotRun
  /\ rOut' = resizeAndConvert(rWidth, rHeight, rDecodes)
  /\ UNCHANGED <<rWidth, rHeight, rDecodes>>
  /\ UNCHANGED notResizeVars

InitResize ==
  /\ rWidth \in ResizeEdges /\ rHeight \in ResizeEdges /\ rDecodes \in BOOLEAN
  /\ rOut = NotRun
  /\ files = <<>> /\ storedKey = Null
  /\ HookIdle /\ FallbackIdle /\ PathIdle
  /\ RelIdle /\ AppIdle /\ ParseIdle /\ GeminiIdle /\ PlanIdle /\ DailyIdle
  /\ ServerIdle

SpecResize == InitResize /\ [][ApplyResize]_vars

\* the dashboard rendered for a record, some days after its upload
MaxDay == 30       \* daysSinceUpload runs 0..MaxDay

DailyRecords ==
  { generateFallbackAnalysis("a.png", k, 0).val : k \in 0..7 }
  \cup { BuildRecord(JObject(getDemoMockResponse), "a.png", 0, 0).val,
         BuildRecord(JObject([sopMapping |-> <<>>]), "a.png", 0, 0).val }

\* the render and the effect: the header's week and setTasks(generateDailyTasks(...))
RenderDashboard ==
  /\ dTasks = NotRun
  /\ dWeek' = currentWeek(dDay)
  /\ dTasks' = generateDailyTasks(dAnalysis, dDay)
  /\ UNCHANGED <<dAnalysis, dDay>>
  /\ UNCHANGED notDailyVars

InitDaily ==
  /\ dAnalysis \in DailyRecords /\ dDay \in 0..MaxDay
  /\ dWeek = 0 /\ dTasks = NotRun
  /\ files = <<>> /\ storedKey = Null
  /\ HookIdle /\ FallbackIdle /\ PathIdle
  /\ RelIdle /\ AppIdle /\ ParseIdle /\ GeminiIdle /\ PlanIdle /\ ResizeIdle
  /\ ServerIdle

SpecDaily == InitDaily /\ [][RenderDashboard]_vars

\* the server-backed App, from its mount on: the effect has called
\* loadVisions, whose getVisions request is under way; the server holds
\* nothing or a vision of an earlier visit
ServerViews == {"dashboard", "create", "settings"}

NextServer ==
  \/ \E ok \in BOOLEAN : getVisionsReply(ok)
  \/ loadVisions
  \/ handleCreate
  \/ \E ok \in BOOLEAN : CreateAfterUpload(ok)
  \/ handleDemoCreate
  \/ CreateAfterAnalysis
  \/ \E ok \in BOOLEAN : saveVisionReply(ok)
  \/ CreateAfterSave
  \/ \E id \in VisionIds(visions), confirmed \in BOOLEAN : handleDelete(id, confirmed)
  \/ \E ok \in BOOLEAN : deleteVisionReply(ok)
  \/ DeleteAfterReply
  \/ \E v \in ServerViews : setView(v)
  \/ \E k \in 1..Len(visions) : onSelect(k)

InitServer ==
  /\ view = "dashboard" /\ selectedVision = JNull /\ visions = <<>> /\ loading = TRUE
  /\ db \in { <<>>, <<ServerVision(0, "publicUrl")>> }
  /\ loadPc = "waiting" /\ loadReply = NotRun
  /\ createPc = "idle" /\ createKind = "upload" /\ createResult = JNull
  /\ createReply = FALSE /\ creates = 0
  /\ deletePc = "idle" /\ deleteId = <<>> /\ deleteReply = FALSE
  /\ added = {} /\ deleted = {} /\ lastCreate = "none"
  /\ files = <<>> /\ storedKey = Null
  /\ HookIdle /\ FallbackIdle /\ PathIdle
  /\ RelIdle /\ AppIdle /\ ParseIdle /\ GeminiIdle /\ PlanIdle /\ ResizeIdle /\ DailyIdle

SpecServer == InitServer /\ [][NextServer]_vars

\* every request is answered or fails, and every promise that has settled
\* is resumed; what the user does is up to the user
SpecServerLive ==
  /\ SpecServer
  /\ WF_vars(\E ok \in BOOLEAN : getVisionsReply(ok))
  /\ WF_vars(loadVisions)
  /\ WF_vars(\E ok \in BOOLEAN : CreateAfterUpload(ok))
  /\ WF_vars(CreateAfterAnalysis)
  /\ WF_vars(\E ok \in BOOLEAN : saveVisionReply(ok))
  /\ WF_vars(CreateAfterSave)
  /\ WF_vars(\E ok \in BOOLEAN : deleteVisionReply(ok))
  /\ WF_vars(DeleteAfterReply)

----------------------------------------------------------------------------
(* Shapes of the data model *)

RecordFields == {"id", "imageUrl", "uploadedAt", "visualDNA", "lifestyleInference",
                 "sensoryTriggers", "sopMapping", "manifestationPath"}
VisualDNAFields == {"colorPalette", "materials", "lighting", "spatialFeeling",
                    "emotionalCore", "archetype"}
LifestyleFields == {"pace", "values", "dailyRituals"}
SensoryFields == {"smell", "sound", "touch"}

IsCompleteRecord(r) ==
  /\ RecordFields \subseteq DOMAIN r
  /\ VisualDNAFields \subseteq DOMAIN r.visualDNA
  /\ LifestyleFields \subseteq DOMAIN r.lifestyleInference
  /\ SensoryFields \subseteq DOMAIN r.sensoryTriggers

IsValidSopEntry(e) ==
  /\ {"module", "subSystem", "visualCue", "actions"} \subseteq DOMAIN e
  /\ e.module \in {"WRITE_PLAN", "PLAN", "DO", "CHECK"}
  /\ Len(e.actions) >= 1

IsFourByTwo(mp) ==
  /\ Len(mp) = 4
  /\ \A w \in 1..4 : mp[w].week = w /\ Len(mp[w].actions) = 2
                     /\ \A n \in 1..2 : mp[w].actions[n] # ""

\* the four StructuredResult fields of a record
SameStructuredResult(r, o) ==
  /\ \A f \in {"visualDNA", "lifestyleInference", "sensoryTriggers", "sopMapping"} :
       /\ Has(r, f) <=> Has(o, f)
       /\ Has(r, f) => r[f] = o[f]

\* record r is the Fallback Substitution of the image at (0-based) index k
IsFallbackFor(r, k) ==
  /\ Has(r, "uploadedAt")
  /\ r = generateFallbackAnalysis(files[k + 1], k, r.uploadedAt).val

RequestsFor(k) == {n \in 1..Len(requests) : requests[n][2] = k}

----------------------------------------------------------------------------
(* Claims *)

\* C1: analyzeImages never rejects and cannot get stuck; while it runs the
\* accumulator holds exactly one record per image already handled, and it
\* resolves with exactly N records, the k-th built from the k-th file.
C1_Progressing ==
  \/ DemoIteration \/ ClaudeRequest \/ ClaudeResponse \/ ModelScopeRequest
  \/ ModelScopeResponse \/ FallbackResolved \/ Finish
C1_OneRecordPerImage ==
  /\ pc # "rejected"
  /\ pc \in {"loop", "claude_wait", "modelscope_wait", "fallback_wait"} =>
       /\ Len(analyses) = i
       /\ i <= Len(files)
       /\ ENABLED C1_Progressing
  /\ pc = "done" =>
       /\ returned.state = "ok"
       /\ Len(returned.val) = Len(files)
       /\ \A k \in 1..Len(files) :
            /\ returned.val[k].imageUrl = createObjectURL(files[k])
            /\ returned.val[k].id[3] = k - 1
C1_Witness ==
  /\ pc = "done" /\ Len(files) = 2 /\ files[1] # files[2]
  /\ caught # {} /\ requests # <<>> /\ Len(returned.val) = 2

\* C2: every record in the batch is a complete VisionAnalysis (all fields of
\* the record, of VisualDNA, of LifestyleInference and of SensoryTriggers).
C2_EveryRecordComplete ==
  \A k \in 1..Len(analyses) : IsCompleteRecord(analyses[k])

\* C3: when a batch of N >= 1 images has finished, progress is 100%.
C3_ProgressHundredWhenDone ==
  (pc = "done" /\ Len(files) >= 1) => IsHundred(progress)

C5_NoNetworkWithoutCredential ==
  storedKey = Null =>
    /\ requests = <<>>
    /\ \A k \in 1..Len(analyses) :
         files[k] # DEMO_NAME => IsFallbackFor(analyses[k], k - 1)

\* C5 (amended): with no stored credential the priority provider is never
\* called; a non-demo image gets at most one request, to the secondary
\* (server-mediated) provider, a demo image none, and when the attempt fails
\* the record is the Fallback Substitution.
C5_OnlySecondaryWithoutCredential ==
  (pc # "idle" /\ claudeKey = Null) =>
    /\ \A n \in 1..Len(requests) :
         /\ requests[n][1] = "modelscope"
         /\ files[requests[n][2] + 1] # DEMO_NAME
    /\ \A k \in 0..(Len(files) - 1) : Cardinality(RequestsFor(k)) <= 1
    /\ \A k \in caught : k < Len(analyses) => IsFallbackFor(analyses[k + 1], k)
C5_Witness ==
  /\ pc = "done" /\ claudeKey = Null
  /\ \E k \in caught : RequestsFor(k) # {}
  /\ \E k \in 0..(Len(files) - 1) : k \notin caught /\ RequestsFor(k) # {}

\* C6: a file named as the demo sentinel never causes a request, and its
\* record carries exactly the canonical demo StructuredResult.
C6_DemoShortCircuit ==
  /\ \A n \in 1..Len(requests) : files[requests[n][2] + 1] # DEMO_NAME
  /\ \A k \in 1..Len(analyses) :
       files[k] = DEMO_NAME =>
         /\ SameStructuredResult(analyses[k], getDemoMockResponse)
         /\ analyses[k].visualDNA.archetype = DEMO_ARCHETYPE
         /\ analyses[k].manifestationPath = generateManifestationPath(getDemoMockResponse).val
         /\ k - 1 \notin caught
C6_Witness ==
  /\ pc = "done" /\ Len(files) = 2 /\ files[2] = DEMO_NAME /\ files[1] # DEMO_NAME
  /\ KeyAccepted(claudeKey) /\ requests # <<>>

\* C7 (as claimed): the canned profile for index i is library[i mod L].
C7_ProfileByIndexModLibrarySize ==
  fOut.state = "ok" =>
    SameStructuredResult(fOut.val, MOCK_PROFILES[(fIndex % Len(MOCK_PROFILES)) + 1])

\* C7 (amended): the canned profile for index i is library[t(i mod 8)] with
\* t = 0, 1, 0, 2, 3, 4, 2, 2; it depends on i alone.
C7_CycleTable == <<0, 1, 0, 2, 3, 4, 2, 2>>
C7_ProfileByIndexTable ==
  fOut.state = "ok" =>
    SameStructuredResult(fOut.val, MOCK_PROFILES[C7_CycleTable[(fIndex % 8) + 1] + 1])
C7_Witness ==
  /\ fOut.state = "ok" /\ fIndex = 10 /\ fFile = DEMO_NAME
  /\ fOut.val.visualDNA.archetype = "Mediterranean Muse"

\* C8: every Fallback Substitution is complete, every sopMapping entry has a
\* module of the four, a sub-system, a visual cue and a non-empty actions
\* list, and the manifestationPath has 4 entries of 2 actions.
C8_FallbackSatisfiesDataModel ==
  fOut.state = "ok" =>
    /\ IsCompleteRecord(fOut.val)
    /\ \A n \in 1..Len(fOut.val.sopMapping) : IsValidSopEntry(fOut.val.sopMapping[n])
    /\ IsFourByTwo(fOut.val.manifestationPath)

\* C9: for every sopMapping whose entries carry lists of strings as actions,
\* the derived path has 4 entries, weeks 1..4 in order, each with 2 non-empty
\* action strings.
C9_PathIsFourByTwo ==
  path # NotRun => (path.state = "ok" /\ IsFourByTwo(path.val))
C9_Witness ==
  /\ path.state = "ok" /\ Len(sop) = 2
  /\ sop[1].module = "WRITE_PLAN" /\ sop[1].actions = <<>>
  /\ sop[2].module = "CHECK" /\ sop[2].actions = <<"">>

\* The (module, sub-system) pair of each looked-up slot, after the SOP
\* architecture of the prompt.
C10_Pair(slot) ==
  IF slot.key = "subSystem" THEN <<"DO", slot.value>>
  ELSE IF slot.value = "WRITE_PLAN" THEN <<"WRITE_PLAN", SS_Inbox>>
  ELSE IF slot.value = "PLAN" THEN <<"PLAN", SS_OKR>>
  ELSE <<"CHECK", SS_Review>>
C10_First(hits) == CHOOSE k \in hits : \A h \in hits : k <= h
C10_HasFirstAction(e) == Len(e.actions) >= 1 /\ e.actions[1] # ""

----------------------------------------------------------------------------
(* Claims about detectRelations and the App *)

Strip(collection) ==
  [k \in 1..Len(collection) |-> Without(collection[k], "relatedVisions")]
Elements(list) == {list[k] : k \in 1..Len(list)}
InBoth(mine, theirs) == Cardinality(Elements(mine) \cap Elements(theirs))
IsRelatedTo(collection, a, b) == collection[b].id \in Elements(collection[a].relatedVisions)

\* C11: for two distinct records A and B of a collection, B's id is in
\* A.relatedVisions exactly when 2c + 3e + 3v >= 5, where c, e and v are the
\* numbers of colors, emotional-core strings and values present in both.
C11_RelatedExactlyAtThreshold ==
  relOut.state = "ok" =>
    \A a, b \in 1..Len(relIn) :
      a # b =>
        ( IsRelatedTo(relOut.val, a, b)
          <=> 2 * InBoth(relIn[a].visualDNA.colorPalette, relIn[b].visualDNA.colorPalette)
              + 3 * InBoth(relIn[a].visualDNA.emotionalCore, relIn[b].visualDNA.emotionalCore)
              + 3 * InBoth(relIn[a].lifestyleInference.values, relIn[b].lifestyleInference.values)
              >= 5 )

\* C12: detectRelations is symmetric: B's id is in A.relatedVisions if and
\* only if A's id is in B.relatedVisions.
C12_Symmetric ==
  relOut.state = "ok" =>
    \A a, b \in 1..Len(relIn) :
      IsRelatedTo(relOut.val, a, b) <=> IsRelatedTo(relOut.val, b, a)

\* C13: whatever the App has done, the collection equals detectRelations of
\* the collection with every relatedVisions taken away: the related lists
\* are those computed over the current full collection from the other
\* fields alone.
C13_RelationsDerived ==
  LET d == detectRelations(Strip(appAnalyses))
  IN d.state = "ok" /\ appAnalyses = d.val
C13_Witness ==
  /\ mounted = "yes" /\ lastOp.op = "OpenPage" /\ batchNo = 2
  /\ Len(appAnalyses) >= 3
  /\ \E a, b \in 1..Len(appAnalyses) :
       /\ IsRelatedTo(appAnalyses, a, b)
       /\ appAnalyses[a].id[2] # appAnalyses[b].id[2]

\* C20: after handleAnalysisComplete the collection is the previous records,
\* in their order, followed by the new ones, none dropped or duplicated, and
\* apart from relatedVisions every field of every record is as it was.
C20_AppendKeepsRecords ==
  (lastOp.op = "handleAnalysisComplete" /\ mounted = "yes") =>
    Strip(appAnalyses) = Strip(lastOp.prev) \o Strip(lastOp.batch)
C20_Witness ==
  /\ lastOp.op = "handleAnalysisComplete" /\ mounted = "yes"
  /\ Len(lastOp.prev) >= 1 /\ Len(lastOp.batch) >= 1
  /\ appAnalyses[1].relatedVisions # lastOp.prev[1].relatedVisions

----------------------------------------------------------------------------
(* Claims about parseAIResponse *)

\* the block of the leftmost opening fence with the label: <<opening, closing>>
C14_Block(t, label) ==
  { oc \in (1..Len(t)) \X (1..Len(t)) :
      /\ t[oc[1]] = label /\ t[oc[2]] = "FE" /\ oc[1] < oc[2]
      /\ \A k \in 1..(oc[1] - 1) : t[k] # label
      /\ \A k \in (oc[1] + 1)..(oc[2] - 1) : t[k] # "FE" }
C14_Between(t, oc) == SubSeq(t, oc[1] + 1, oc[2] - 1)
\* stage 1: the contents of a fenced block (a labelled one first)
C14_Stage1(t) ==
  IF C14_Block(t, "FJ") # {} THEN { C14_Between(t, oc) : oc \in C14_Block(t, "FJ") }
  ELSE { C14_Between(t, oc) : oc \in C14_Block(t, "F") }
\* stage 2: from the first "{" to the last "}"; when the last "}" comes
\* before the first "{", what lies between the two
C14_Stage2(t) ==
  LET opens == {k \in 1..Len(t) : t[k] = "{"}
      closes == {k \in 1..Len(t) : t[k] = "}"}
  IN IF opens = {} \/ closes = {} THEN {}
     ELSE LET f == CHOOSE k \in opens : \A h \in opens : k <= h
              l == CHOOSE k \in closes : \A h \in closes : k >= h
          IN IF f <= l THEN { SubSeq(t, f, l) } ELSE { SubSeq(t, l + 1, f - 1) }
\* the one candidate of the first stage that applies
C14_Selected(t) ==
  IF C14_Stage1(t) # {} THEN C14_Stage1(t)
  ELSE IF C14_Stage2(t) # {} THEN C14_Stage2(t)
  ELSE {t}
C14_NoFence(t) == \A k \in 1..Len(t) : t[k] \notin {"FJ", "F", "FE"}
C14_IsProse(t) == \A k \in 1..Len(t) : t[k] = "prose"
\* a fenced JSON block yields the enclosed object; a bare object surrounded
\* by prose is extracted and decoded
C14_Examples ==
  pOut # NotRun =>
    \A p \in PayloadNames :
      /\ \A a, b \in 0..Len(pText) :
           ( /\ a + 5 + b = Len(pText)
             /\ C14_NoFence(SubSeq(pText, 1, a))
             /\ SubSeq(pText, a + 1, a + 5) = <<"FJ", "{", p, "}", "FE">> )
           => pOut = Ok(JObject(Payloads[p]))
      /\ \A a, b \in 0..Len(pText) :
           ( /\ a + 3 + b = Len(pText)
             /\ C14_IsProse(SubSeq(pText, 1, a))
             /\ SubSeq(pText, a + 1, a + 3) = <<"{", p, "}">>
             /\ C14_IsProse(SubSeq(pText, a + 4, Len(pText))) )
           => pOut = Ok(JObject(Payloads[p]))

\* C14 (as claimed): the extraction order is followed, the examples hold,
\* and the parse error is the result only when the decode fails at all
\* three stages (fenced block, brace substring, whole text).
C14_ErrorOnlyWhenAllStagesFail ==
  /\ C14_Examples
  /\ pOut = Threw =>
       \A c \in C14_Stage1(pText) \cup C14_Stage2(pText) \cup {pText} : JSONParse(c) = Threw

\* C14 (amended): exactly one candidate is decoded, that of the first stage
\* that applies (a fenced block; else first "{" to last "}"; else the whole
\* text); the result is the decode of that candidate and nothing else, and
\* the parse error when that decode fails, whatever a later stage would give.
C14_SelectedStageDecides ==
  /\ C14_Examples
  /\ pOut # NotRun => \A c \in C14_Selected(pText) : pOut = JSONParse(c)
  /\ Cardinality(C14_Selected(pText)) = 1
C14_Witness ==
  /\ pText = <<"FJ", "{", "noDNA", "}", "FE", "prose", "{", "full", "}">>
  /\ pOut = Ok(JObject(Payloads["noDNA"]))

----------------------------------------------------------------------------
(* Further claims about analyzeImages *)

\* C15: the images are processed one after another: every request made so
\* far is for an image all of whose predecessors have their record in the
\* accumulator, and at most one request is for an image that has no record
\* yet (the one in flight).
C15_OneImageAtATime ==
  /\ \A n \in 1..Len(requests) : requests[n][2] <= Len(analyses)
  /\ Cardinality({n \in 1..Len(requests) : requests[n][2] >= Len(analyses)}) <= 1
  /\ pc \in {"claude_wait", "modelscope_wait"} =>
       /\ Len(requests) >= 1
       /\ requests[Len(requests)][2] = Len(analyses)
C15_Witness ==
  /\ pc \in {"claude_wait", "modelscope_wait"}
  /\ Len(analyses) = 1 /\ Len(requests) = 2
  /\ requests[1][2] = 0 /\ requests[2][2] = 1

ProgressLeq(p, q) == p.num * q.den <= q.num * p.den

\* C16: once analyzeImages has reset it, progress never decreases, and it
\* always lies between 0 and 100.
C16_ProgressMonotone ==
  /\ [](ProgressLeq(NoProgress, progress) /\ ProgressLeq(progress, Percent(1, 1)))
  /\ [][pc # "idle" => ProgressLeq(progress, progress')]_vars
C16_Witness ==
  /\ pc = "done" /\ Len(files) = 2 /\ caught = {0} /\ IsHundred(progress)

C19_HasPrefix(key) ==
  key # Null /\ Len(key) >= 3 /\ key[1] = "s" /\ key[2] = "k" /\ key[3] = "-"

\* C19: requests are made for non-demo images only, and each goes to the
\* priority provider if the stored credential exists and starts with "sk-",
\* and to the secondary provider otherwise; so with no key, or a key with
\* another prefix, the priority provider is never called.
C19_ProviderByStoredKey ==
  \A n \in 1..Len(requests) :
    /\ files[requests[n][2] + 1] # DEMO_NAME
    /\ requests[n][1] = IF C19_HasPrefix(storedKey) THEN "claude" ELSE "modelscope"
C19_Witness ==
  /\ pc = "done" /\ storedKey = <<"A", "I", "z", "a">>
  /\ Len(requests) = 2 /\ requests[1][1] = "modelscope"

----------------------------------------------------------------------------
(* Claims about analyzeVisionWithGemini *)

GeminiParses(resp) == resp.type = "text" /\ parseAIResponse_part003(resp.text) # Threw
GeminiReports(resp, categories) == resp.type = "error" /\ resp.error.category \in categories

\* C17: the variants are requested in list order, one at a time and at most
\* five of them; the client returns at the first reply that parses and
\* requests nothing after it; a model-availability error is followed by the
\* request of the next variant; a credential-class error ends the iteration;
\* when no variant succeeded the client throws the last error.
C17_VariantsInOrder ==
  /\ Len(gRequests) <= Len(models)
  /\ gRequests = SubSeq(models, 1, Len(gRequests))
  /\ Len(gRequests) = Len(gReplies) + (IF gPc = "wait" THEN 1 ELSE 0)
  /\ \A n \in 1..Len(gReplies) :
       /\ GeminiParses(gReplies[n]) =>
            /\ Len(gRequests) = n /\ gPc = "settled"
            /\ gOut = Ok(parseAIResponse_part003(gReplies[n].text).val)
       /\ (GeminiReports(gReplies[n], {"model unavailable"}) /\ n < Len(models)) =>
            Len(gRequests) >= n + 1
       /\ GeminiReports(gReplies[n], {"bad credential", "access denied"}) =>
            /\ Len(gRequests) = n /\ gPc = "settled"
            /\ gOut = Err(gReplies[n].error.message)
  /\ (Len(gReplies) = Len(models) /\ ~GeminiParses(gReplies[Len(models)])) =>
       /\ gPc = "settled" /\ gOut = Err(gLastError)
       /\ gReplies[Len(models)].type = "error" => gLastError = gReplies[Len(models)].error.message
  /\ gPc = "settled" => gOut.state \in {"ok", "threw"}
C17_Witness ==
  /\ gPc = "settled" /\ gOut.state = "ok" /\ Len(gRequests) = 3
  /\ GeminiReports(gReplies[1], {"model unavailable"})
  /\ GeminiReports(gReplies[2], {"model unavailable"})

\* C18: after a provider-reported error of a permanent category (bad
\* credential, access denied, quota or billing exhausted) no further variant
\* is requested; among the provider-reported errors only a model-unavailable
\* one is followed by the request of the next variant.
C18_PermanentErrorStops ==
  \A n \in 1..Len(gReplies) :
    /\ GeminiReports(gReplies[n], {"bad credential", "access denied", "quota exhausted"}) =>
         Len(gRequests) = n
    /\ (gReplies[n].type = "error" /\ Len(gRequests) > n) =>
         GeminiReports(gReplies[n], {"model unavailable"})

----------------------------------------------------------------------------
(* Claims about ActionPlanEnhanced *)

\* C21: a toggle for the open record R, with the render and the save that
\* follow it, writes only the completion set stored under R's key: the
\* stored set of every other record, the stored collection and the
\* in-memory records stay as they are.
C21_ToggleTouchesOnlyOwnSet ==
  /\ [][\A id \in PlanIds :
          id # apRecord =>
            completionStore'[CompletedKey(id)] = completionStore[CompletedKey(id)]]_vars
  /\ [][apPc # "closed" => UNCHANGED <<storage, appAnalyses>>]_vars
C21_Witness ==
  /\ apPc = "ready" /\ apToggles # <<>>
  /\ completionStore[CompletedKey(apRecord)] # apAtMount
  /\ completionStore[CompletedKey(apRecord)] = StringifySet(completedActions)
  /\ \E id \in PlanIds :
       /\ id # apRecord
       /\ completionStore[CompletedKey(id)] \notin {Null, StringifySet(<<>>)}

\* C24: when a set S is stored for the record the action plan is opened
\* for, then once the mount effects and the render they cause have run (and
\* before any toggle), the in-memory set and the stored set are both S.
C24_OpenKeepsStoredSet ==
  (apPc = "ready" /\ apToggles = <<>> /\ apAtMount # Null) =>
    /\ completedActions = ParseSet(apAtMount)
    /\ completionStore[CompletedKey(apRecord)] = apAtMount
C24_Witness ==
  /\ apPc = "ready" /\ apToggles = <<>> /\ apAtMount # Null
  /\ Len(ParseSet(apAtMount)) = 2

----------------------------------------------------------------------------
(* Claims about resizeAndConvert *)

\* C22: resizeAndConvert never upscales and caps the longest edge.  For an
\* image of w x h pixels the canvas is w x h when max(w, h) <= 1024;
\* otherwise its longer edge is exactly 1024 and its shorter edge is the
\* shorter input edge times 1024 / max(w, h), to the pixel (at most one
\* pixel below the exact value, never above it); no canvas dimension
\* exceeds 1024 or the input dimension.
C22_NeverUpscalesCapsLongest ==
  (rOut # NotRun /\ rDecodes) =>
    LET out == rOut.val
        longest == Max(rWidth, rHeight)
        shortest == Min(rWidth, rHeight)
        outShortest == Min(out.width, out.height)
    IN  /\ longest <= 1024 => (out.width = rWidth /\ out.height = rHeight)
        /\ longest > 1024 =>
              /\ Max(out.width, out.height) = 1024
              /\ rWidth > rHeight => out.width = 1024
              /\ rHeight > rWidth => out.height = 1024
              /\ outShortest * longest <= shortest * 1024
              /\ shortest * 1024 - longest <= outShortest * longest
        /\ out.width <= 1024 /\ out.width <= rWidth
        /\ out.height <= 1024 /\ out.height <= rHeight
C22_Witness ==
  /\ rOut # NotRun /\ rDecodes
  /\ rWidth = 2000 /\ rHeight = 1025
  /\ rOut.val.width = 1024 /\ rOut.val.height = 524

----------------------------------------------------------------------------
(* Claims about the stored collection and the stages of the App *)

\* a step of the startup: the mount with its effects, or the render that
\* applies what the loading effect queued
StartupStep == mounted' = "loading" \/ mounted = "loading"

\* the startup effects leave a stored non-empty collection as it is
C23_StartupKeepsStored ==
  [][(StartupStep /\ storage # Null /\ Len(JSONParseStored(storage)) > 0)
       => storage' = storage]_vars

C27_StageMatchesSelection ==
  /\ (stage = "action") <=> (selectedAnalysis # JNull)
  /\ stage = "analysis" => uploadedImages # <<>>
C27_Witness ==
  /\ mounted = "yes" /\ stage = "action" /\ lastOp.op = "handleEnterVision"
  /\ selectedAnalysis # JNull /\ batchNo >= 1 /\ uploadedImages # <<>>

\* C28: whatever batches handleAnalysisComplete has been given, no record's
\* relatedVisions holds the record's own id, and every id it holds is the
\* id of another record of the collection.
C28_RelatedAreOthers ==
  \A k \in 1..Len(appAnalyses) :
    \A r \in 1..Len(appAnalyses[k].relatedVisions) :
      /\ appAnalyses[k].relatedVisions[r] # appAnalyses[k].id
      /\ \E j \in 1..Len(appAnalyses) :
           j # k /\ appAnalyses[j].id = appAnalyses[k].relatedVisions[r]
C28_Witness ==
  /\ mounted = "yes" /\ lastOp.op = "handleAnalysisComplete" /\ batchNo = 2
  /\ Len(appAnalyses) >= 3
  /\ \E k \in 1..Len(appAnalyses) : Len(appAnalyses[k].relatedVisions) >= 2

----------------------------------------------------------------------------
(* Claims about the ids of a batch *)

\* C29: the records of one analyzeImages call have pairwise distinct ids
\* (as texts), also when images are handled within the same millisecond
\* and whichever of them come from a provider, from the demo or from the
\* catch block.
C29_IdsPairwiseDistinct ==
  \A a, b \in 1..Len(analyses) :
    a # b => IdText(analyses[a].id) # IdText(analyses[b].id)
C29_Witness ==
  /\ pc = "done" /\ Len(returned.val) = 2
  /\ returned.val = analyses
  /\ returned.val[1].id[2] = returned.val[2].id[2]
  /\ returned.val[1].id[1] # returned.val[2].id[1]

----------------------------------------------------------------------------
(* Claims about the tasks of a day *)

\* C30: for every day index and every record with a 4-week path, the
\* afternoon task of generateDailyTasks is an action of the path entry for
\* the week the header shows, min(floor(d / 7) + 1, 4).
C30_AfternoonFromShownWeek ==
  (dTasks # NotRun /\ Len(dAnalysis.manifestationPath) = 4) =>
    \E n \in 1..Len(dTasks) :
      /\ dTasks[n].category = "afternoon"
      /\ \E e \in 1..4 :
           /\ dAnalysis.manifestationPath[e].week = dWeek
           /\ \E a \in 1..Len(dAnalysis.manifestationPath[e].actions) :
                dAnalysis.manifestationPath[e].actions[a] = dTasks[n].action

----------------------------------------------------------------------------
(* Claims about the server-backed App *)

\* C25: a vision that handleCreate or handleDemoCreate has saved and added
\* to the client's list stays in the list until the user deletes it,
\* whenever the reply to the initial getVisions comes in.
C25_CreatedStaysListed ==
  \A id \in added \ deleted : id \in VisionIds(visions)

\* C26: once handleCreate has finished, saved or failed, the loading flag
\* is eventually false.
C26_LoadingEventuallyFalse ==
  (lastCreate \in {"upload: saved", "upload: upload failed", "upload: save failed"})
    ~> (loading = FALSE)

====
